---- MODULE Spec2Model ----
(***************************************************************************)
(* A model of the Gold language pipeline: the position-tracking lexer      *)
(* (gold/src/lexing.rs), the combinator parser (gold/src/parsing.rs and    *)
(* the earlier src/lib.rs) and the built-in functions                      *)
(* (gold/src/builtins.rs).                                                 *)
(*                                                                         *)
(* Source text is a sequence of one-character strings; every character of  *)
(* the alphabets used here is one byte, so byte offsets and character      *)
(* indices coincide.                                                       *)
(***************************************************************************)
EXTENDS Integers, Sequences, FiniteSets, TLC

VARIABLES
    source,  \* the text the lexer was created over
    lex,     \* the lexer the client holds
    prev,    \* the lexer the last call was made on
    res,     \* the last lexer call and what it returned
    bcall,   \* a call of a built-in: its name and arguments
    bret,    \* what the call returned
    pc,      \* how far a text has come: displayed, parsed, evaluated
    obj,     \* the value whose display is parsed, if the text is one
    text,    \* the text handed to the parser
    tree,    \* what parse returned
    out      \* what evaluating the parsed file returned

lexvars == <<source, lex, prev, res>>

bvars == <<bcall, bret>>

pvars == <<pc, obj, text, tree, out>>

vars == <<source, lex, prev, res, bcall, bret, pc, obj, text, tree, out>>

(***************************************************************************)
(* Bounds.                                                                 *)
(***************************************************************************)
\* longest source text over the string-mode and layout alphabets
MaxLen == 4
\* longest source text over the numeric alphabet
MaxNumLen == 5
\* largest opening column passed to next_multistring
MaxCol == 2
\* largest line number a lexer is followed to (the line counter is unbounded:
\* next_multistring at the end of input can count lines without consuming)
MaxLine == 6

(***************************************************************************)
(* Character classes.                                                      *)
(***************************************************************************)
Digits == {"0", "1", "2", "3", "4", "5", "6", "7", "8", "9"}

Lower == {"a", "b", "c", "d", "e", "f", "g", "h", "i", "j", "k", "l", "m",
          "n", "o", "p", "q", "r", "s", "t", "u", "v", "w", "x", "y", "z"}

Upper == {"A", "B", "C", "D", "E", "F", "G", "H", "I", "J", "K", "L", "M",
          "N", "O", "P", "Q", "R", "S", "T", "U", "V", "W", "X", "Y", "Z"}

\* \s of the regex crate, restricted to one-byte characters
Space == {" ", "\t", "\n", "\r", "\f"}

\* [^\S\n]: whitespace other than the newline
IndentChars == Space \ {"\n"}

\* the characters the NAME regex excludes after the first one
NameStop == Space \cup {"'", "\"", "{", "}", "(", ")", "[", "]", "/", "+",
                        "*", "-", ";", ":", ",", ".", "=", "#", "|"}

\* the characters the KEY regex excludes
KeyStop == Space \cup {"'", "\"", "{", "}", "(", ")", "[", "]", ":"}

\* the reserved words
KEYWORDS ==
    {<<"f", "o", "r">>, <<"i", "f">>, <<"t", "h", "e", "n">>, <<"e", "l", "s", "e">>,
     <<"l", "e", "t">>, <<"i", "n">>, <<"t", "r", "u", "e">>, <<"f", "a", "l", "s", "e">>,
     <<"n", "u", "l", "l">>, <<"a", "n", "d">>, <<"o", "r">>, <<"n", "o", "t">>,
     <<"a", "s">>, <<"i", "m", "p", "o", "r", "t">>}

(***************************************************************************)
(* Sequence helpers.                                                       *)
(***************************************************************************)
\* s[from ..] with a zero-based byte index, as a Rust slice
Drop(s, n) == SubSeq(s, n + 1, Len(s))

\* s[.. n]
Take(s, n) == SubSeq(s, 1, n)

\* the character at zero-based index i, or "" past the end (chars().nth(i))
At(s, i) == IF i < Len(s) THEN s[i + 1] ELSE ""

RECURSIVE RunIn(_, _, _)
\* length of the longest run of characters of set S starting at index i
RunIn(s, i, S) == IF i < Len(s) /\ s[i + 1] \in S THEN 1 + RunIn(s, i + 1, S) ELSE 0

RECURSIVE RunNotIn(_, _, _)
\* length of the longest run of characters outside set S starting at index i
RunNotIn(s, i, S) == IF i < Len(s) /\ s[i + 1] \notin S THEN 1 + RunNotIn(s, i + 1, S) ELSE 0

RECURSIVE FindFrom(_, _, _)
\* str::find(c): the index of the first c at or after i, or -1
FindFrom(s, c, i) ==
    IF i >= Len(s) THEN -1
    ELSE IF s[i + 1] = c THEN i
    ELSE FindFrom(s, c, i + 1)

Find(s, c) == FindFrom(s, c, 0)

\* all sequences over S of length at most n
BSeq(S, n) == UNION {[1..k -> S] : k \in 0..n}

(***************************************************************************)
(* The regular expressions of lexing.rs, each as the length of its match   *)
(* at the start of s, or -1 when it does not match.  All are anchored.     *)
(***************************************************************************)
\* [[:digit:]][[:digit:]_]* at index i: length of the match, 0 if none
DigitRun(s, i) ==
    IF At(s, i) \in Digits THEN 1 + RunIn(s, i + 1, Digits \cup {"_"}) ELSE 0

\* (?:e|E)(?:\+|-)?[[:digit:]][[:digit:]_]* at index i: length, 0 if none
SignedExponent(s, i) ==
    IF At(s, i) \notin {"e", "E"} THEN 0
    ELSE LET sg == IF At(s, i + 1) \in {"+", "-"} THEN 1 ELSE 0
             d  == DigitRun(s, i + 1 + sg)
         IN  IF d > 0 THEN 1 + sg + d ELSE 0

\* (?:e|E)[[:digit:]][[:digit:]_]* at index i: length, 0 if none
PlainExponent(s, i) ==
    IF At(s, i) \notin {"e", "E"} THEN 0
    ELSE LET d == DigitRun(s, i + 1)
         IN  IF d > 0 THEN 1 + d ELSE 0

WHITESPACE(s) == RunIn(s, 0, IndentChars)

NAME(s) ==
    IF At(s, 0) \in Lower \cup Upper \cup {"_"}
    THEN 1 + RunNotIn(s, 1, NameStop)
    ELSE -1

KEY(s) ==
    LET n == RunNotIn(s, 0, KeyStop)
    IN  IF n > 0 THEN n ELSE -1

FLOAT_A(s) ==
    LET d == DigitRun(s, 0)
    IN  IF d = 0 \/ At(s, d) # "." THEN -1
        ELSE LET f == RunIn(s, d + 1, Digits \cup {"_"})
             IN  d + 1 + f + SignedExponent(s, d + 1 + f)

FLOAT_B(s) ==
    IF At(s, 0) # "." THEN -1
    ELSE LET d == DigitRun(s, 1)
         IN  IF d = 0 THEN -1 ELSE 1 + d + PlainExponent(s, 1 + d)

FLOAT_C(s) ==
    LET d == DigitRun(s, 0)
        x == SignedExponent(s, d)
    IN  IF d = 0 \/ x = 0 THEN -1 ELSE d + x

DIGITS(s) ==
    LET d == DigitRun(s, 0)
    IN  IF d = 0 THEN -1 ELSE d

(***************************************************************************)
(* Lexer values.                                                           *)
(***************************************************************************)
Location(o, l, c, n) == [offset |-> o, line |-> l, column |-> c, length |-> n]

NoLocation == Location(0, 0, 0, 0)

NoToken == [kind |-> "None", span |-> <<>>, loc |-> NoLocation]

NoError == [loc |-> NoLocation, what |-> "None", ch |-> ""]

\* Lexer::new
NewLexer(code) == [code |-> code, offset |-> 0, line |-> 1, col |-> 0]

\* Lexer::loc
loc(lx) == Location(lx.offset, lx.line, lx.col, 0)

\* Lexer::peek; "" stands for None
peek(lx) == At(lx.code, 0)

\* skip with the byte offset restarted on a new line, as the column is
skip_offset_reset(lx, offset, delta_line) ==
    [code   |-> Drop(lx.code, offset),
     offset |-> IF delta_line > 0 THEN 0 ELSE lx.offset + offset,
     line   |-> lx.line + delta_line,
     col    |-> IF delta_line > 0 THEN 0 ELSE lx.col + offset]

\* Lexer::skip
skip(lx, offset, delta_line) ==
    [code   |-> Drop(lx.code, offset),
     offset |-> lx.offset + offset,
     line   |-> lx.line + delta_line,
     col    |-> IF delta_line > 0 THEN 0 ELSE lx.col + offset]

\* the outcomes of a lexer call: Ok((lexer, token)), Err(SyntaxError) or a panic
Ok(lx, tok) == [status |-> "ok", lexer |-> lx, tok |-> tok, err |-> NoError]

Err(lx, what, ch) ==
    [status |-> "err", lexer |-> lx, tok |-> NoToken,
     err |-> [loc |-> loc(lx), what |-> what, ch |-> ch]]

Panic(lx) == [status |-> "panic", lexer |-> lx, tok |-> NoToken, err |-> NoError]

\* Lexer::skip_tag
skip_tag(lx, offset, delta_line, kind) ==
    Ok(skip(lx, offset, delta_line),
       [kind |-> kind,
        span |-> Take(lx.code, offset),
        loc  |-> Location(lx.offset, lx.line, lx.col, offset)])

\* Lexer::traverse, with the match length m of the anchored regex (-1: no match)
traverse(lx, m, element, kind) ==
    IF m >= 0 THEN skip_tag(skip(lx, 0, 0), m, 0, kind)
    ELSE Err(lx, element, "")

\* Lexer::skip_indent
skip_indent(lx) == skip(lx, WHITESPACE(lx.code), 0)

RECURSIVE skip_whitespace_keeping_comments(_)
\* a skip_whitespace that stops at a comment
skip_whitespace_keeping_comments(lx) ==
    LET self == skip_indent(lx)
    IN  IF peek(self) = "\n" THEN skip_whitespace_keeping_comments(skip(self, 1, 1))
        ELSE self

RECURSIVE skip_whitespace(_)
\* Lexer::skip_whitespace
skip_whitespace(lx) ==
    LET self == skip_indent(lx)
    IN  IF peek(self) = "\n" THEN skip_whitespace(skip(self, 1, 1))
        ELSE IF peek(self) = "#"
        THEN LET f   == Find(self.code, "\n")
                 end == IF f >= 0 THEN f ELSE Len(self.code) - 1
             IN  skip_whitespace(skip(self, end + 1, 1))
        ELSE self

\* Lexer::next_number
next_number(lx) ==
    IF FLOAT_A(lx.code) >= 0 THEN traverse(lx, FLOAT_A(lx.code), "Number", "Float")
    ELSE IF FLOAT_B(lx.code) >= 0 THEN traverse(lx, FLOAT_B(lx.code), "Number", "Float")
    ELSE IF FLOAT_C(lx.code) >= 0 THEN traverse(lx, FLOAT_C(lx.code), "Number", "Float")
    ELSE traverse(lx, DIGITS(lx.code), "Number", "Integer")

\* a name lexer that refuses the reserved words
next_name_rejecting_keywords(lx) ==
    IF NAME(lx.code) >= 0 /\ Take(lx.code, NAME(lx.code)) \in KEYWORDS
    THEN Err(lx, "Identifier", "")
    ELSE traverse(lx, NAME(lx.code), "Identifier", "Name")

\* Lexer::next_name with the NAME regex
next_name_NAME(lx) == traverse(lx, NAME(lx.code), "Identifier", "Name")

\* a key lexer that ends a key at a hyphen, as a name ends
next_name_stopping_at_hyphen(lx) ==
    LET n == RunNotIn(lx.code, 0, KeyStop \cup {"-"})
    IN  traverse(lx, IF n > 0 THEN n ELSE -1, "Identifier", "Name")

\* Lexer::next_name with the KEY regex
next_name_KEY(lx) == traverse(lx, KEY(lx.code), "Identifier", "Name")

\* Lexer::satisfies_at for an equality test
is_at(lx, i, c) == At(lx.code, i) = c

\* Lexer::next_token
next_token(lx) ==
    LET self == skip_whitespace(lx)
        c    == peek(self)
    IN  CASE c \in Lower \cup Upper \cup {"_"} -> next_name_NAME(self)
        [] c \in Digits -> next_number(self)
        [] c = "." /\ At(self.code, 1) \in Digits -> next_number(self)
        [] c = "." /\ is_at(self, 1, ".") /\ is_at(self, 2, ".") -> skip_tag(self, 3, 0, "Ellipsis")
        [] c = "." /\ ~(At(self.code, 1) \in Digits)
                   /\ ~(is_at(self, 1, ".") /\ is_at(self, 2, ".")) -> skip_tag(self, 1, 0, "Dot")
        [] c = ":" /\ is_at(self, 1, ":") -> skip_tag(self, 2, 0, "DoubleColon")
        [] c = ":" /\ ~is_at(self, 1, ":") -> skip_tag(self, 1, 0, "Colon")
        [] c = "\"" -> skip_tag(self, 1, 0, "DoubleQuote")
        [] c = "{" /\ is_at(self, 1, "|") -> skip_tag(self, 2, 0, "OpenBracePipe")
        [] c = "{" /\ ~is_at(self, 1, "|") -> skip_tag(self, 1, 0, "OpenBrace")
        [] c = "|" /\ is_at(self, 1, "}") -> skip_tag(self, 2, 0, "CloseBracePipe")
        [] c = "}" -> skip_tag(self, 1, 0, "CloseBrace")
        [] c = "[" -> skip_tag(self, 1, 0, "OpenBracket")
        [] c = "]" -> skip_tag(self, 1, 0, "CloseBracket")
        [] c = "(" -> skip_tag(self, 1, 0, "OpenParen")
        [] c = ")" -> skip_tag(self, 1, 0, "CloseParen")
        [] c = "," -> skip_tag(self, 1, 0, "Comma")
        [] c = "+" -> skip_tag(self, 1, 0, "Plus")
        [] c = "-" -> skip_tag(self, 1, 0, "Minus")
        [] c = "/" /\ is_at(self, 1, "/") -> skip_tag(self, 2, 0, "DoubleSlash")
        [] c = "/" /\ ~is_at(self, 1, "/") -> skip_tag(self, 1, 0, "Slash")
        [] c = "*" -> skip_tag(self, 1, 0, "Asterisk")
        [] c = "^" -> skip_tag(self, 1, 0, "Caret")
        [] c = "<" /\ is_at(self, 1, "=") -> skip_tag(self, 2, 0, "LessEq")
        [] c = "<" /\ ~is_at(self, 1, "=") -> skip_tag(self, 1, 0, "Less")
        [] c = ">" /\ is_at(self, 1, "=") -> skip_tag(self, 2, 0, "GreaterEq")
        [] c = ">" /\ ~is_at(self, 1, "=") -> skip_tag(self, 1, 0, "Greater")
        [] c = "=" /\ is_at(self, 1, "=") -> skip_tag(self, 2, 0, "DoubleEq")
        [] c = "=" /\ ~is_at(self, 1, "=") -> skip_tag(self, 1, 0, "Eq")
        [] c = "!" /\ is_at(self, 1, "=") -> skip_tag(self, 2, 0, "ExclamEq")
        [] c = "|" /\ ~is_at(self, 1, "}") -> skip_tag(self, 1, 0, "Pipe")
        [] c = ";" -> skip_tag(self, 1, 0, "SemiColon")
        [] c = "" -> Err(self, "UnexpectedEof", "")
        [] OTHER -> Err(self, "UnexpectedChar", c)

\* Lexer::next_key
next_key(lx) ==
    LET self == skip_whitespace(lx)
        c    == peek(self)
    IN  CASE c = "}" -> skip_tag(self, 1, 0, "CloseBrace")
        [] c = "$" -> skip_tag(self, 1, 0, "Dollar")
        [] c = "\"" -> skip_tag(self, 1, 0, "DoubleQuote")
        [] c = ":" /\ is_at(self, 1, ":") -> skip_tag(self, 2, 0, "DoubleColon")
        [] c = ":" /\ ~is_at(self, 1, ":") -> skip_tag(self, 1, 0, "Colon")
        [] c = "." /\ is_at(self, 1, ".") /\ is_at(self, 2, ".") -> skip_tag(self, 3, 0, "Ellipsis")
        [] c = "" -> Err(self, "UnexpectedEof", "")
        [] OTHER -> next_name_KEY(self)

RECURSIVE string_loop_escape_unskipped(_, _)
\* string_loop with the escaped character left to the next iteration
string_loop_escape_unskipped(self, i) ==
    LET c == At(self.code, i)
    IN  IF c = "" THEN skip_tag(self, Len(self.code), 0, "StringLit")
        ELSE IF c \in {"\"", "$", "\n"} THEN skip_tag(self, i, 0, "StringLit")
        ELSE IF c = "\\"
        THEN LET cc == At(self.code, i + 1)
             IN  IF cc \in {"\"", "\\", "$"} THEN string_loop_escape_unskipped(self, i + 1)
                 ELSE IF cc # "" THEN Err(skip(self, i + 1, 0), "UnexpectedChar", cc)
                 ELSE string_loop_escape_unskipped(self, i + 1)
        ELSE string_loop_escape_unskipped(self, i + 1)

RECURSIVE string_loop_error_at_backslash(_, _)
\* string_loop with the error located at the backslash
string_loop_error_at_backslash(self, i) ==
    LET c == At(self.code, i)
    IN  IF c = "" THEN skip_tag(self, Len(self.code), 0, "StringLit")
        ELSE IF c \in {"\"", "$", "\n"} THEN skip_tag(self, i, 0, "StringLit")
        ELSE IF c = "\\"
        THEN LET cc == At(self.code, i + 1)
             IN  IF cc \in {"\"", "\\", "$"} THEN string_loop_error_at_backslash(self, i + 2)
                 ELSE IF cc # "" THEN Err(skip(self, i, 0), "UnexpectedChar", cc)
                 ELSE string_loop_error_at_backslash(self, i + 1)
        ELSE string_loop_error_at_backslash(self, i + 1)

RECURSIVE string_loop(_, _)
\* the loop of Lexer::next_string over char_indices, the iterator standing at index i
string_loop(self, i) ==
    LET c == At(self.code, i)
    IN  IF c = "" THEN skip_tag(self, Len(self.code), 0, "StringLit")
        ELSE IF c \in {"\"", "$", "\n"} THEN skip_tag(self, i, 0, "StringLit")
        ELSE IF c = "\\"
        THEN LET cc == At(self.code, i + 1)
             IN  IF cc \in {"\"", "\\", "$"} THEN string_loop(self, i + 2)
                 ELSE IF cc # "" THEN Err(skip(self, i + 1, 0), "UnexpectedChar", cc)
                 ELSE string_loop(self, i + 1)
        ELSE string_loop(self, i + 1)

\* Lexer::next_string
next_string(self) ==
    LET c == peek(self)
    IN  CASE c = "" -> Err(self, "UnexpectedEof", "")
        [] c = "\"" -> skip_tag(self, 1, 0, "DoubleQuote")
        [] c = "$" -> skip_tag(self, 1, 0, "Dollar")
        [] c = "\n" -> Err(self, "UnexpectedChar", "\n")
        [] OTHER -> string_loop(self, 0)

\* `self.code.find('\n').unwrap_or(self.code.len() - 1) + 1` in usize arithmetic:
\* with no newline and an empty remainder the subtraction underflows, which
\* panics when overflow checks are on and wraps (so that the sum is 0) when off.
\* -1 stands for the panic.
line_end(self, checked) ==
    LET f == Find(self.code, "\n")
    IN  IF f >= 0 THEN f + 1
        ELSE IF Len(self.code) > 0 THEN Len(self.code)
        ELSE IF checked THEN -1 ELSE 0

RECURSIVE multistring_loop(_, _, _)
\* the loop of Lexer::next_multistring; the result is the lexer after the loop,
\* or a lexer of line 0 for a panic
multistring_loop(self, col, checked) ==
    LET skipped == skip_indent(self)
    IN  IF skipped.col <= col THEN self
        ELSE LET end1 == line_end(skipped, checked)
             IN  IF end1 < 0 THEN [skipped EXCEPT !.line = 0]
                 ELSE multistring_loop(skip(skipped, end1, 1), col, checked)

\* Lexer::next_multistring
next_multistring(orig, col, checked) ==
    LET end1 == line_end(orig, checked)
    IN  IF end1 < 0 THEN Panic(orig)
        ELSE LET self == multistring_loop(skip(orig, end1, 1), col, checked)
             IN  IF self.line = 0 THEN Panic(orig)
                 ELSE Ok(self,
                         [kind |-> "MultiString",
                          span |-> Take(orig.code, self.offset - orig.offset),
                          loc  |-> Location(orig.offset, orig.line, orig.col,
                                            self.offset - orig.offset)])

(***************************************************************************)
(* The lexer as a state machine: a client holds a lexer over `source` and  *)
(* calls one of the four entry points; on Ok it continues with the         *)
(* returned lexer, on Err it keeps the lexer it had (Lexer is Copy).       *)
(***************************************************************************)
\* string mode: quotes, interpolation, escapes, line ends
AlphaString == {"a", "\"", "$", "\\", "\n"}

\* layout: indentation, line ends, comments
AlphaLayout == {"a", " ", "\n", "#"}

\* numbers
AlphaNumber == {"1", ".", "e", "-", "_"}

\* names, keywords and punctuation
AlphaName == {"i", "f", ":", ".", "}"}

\* map keys: characters a key may hold but a name may not, and an opening
\* parenthesis, which neither may
AlphaKey == {"a", "-", "$", "("}

Sources ==
    BSeq(AlphaString, MaxLen) \cup BSeq(AlphaLayout, MaxLen)
        \cup BSeq(AlphaName, MaxLen) \cup BSeq(AlphaNumber, MaxNumLen)
        \cup BSeq(AlphaKey, MaxLen) \cup KEYWORDS

NoCall == [op |-> "new", col |-> 0, status |-> "ok", tok |-> NoToken, err |-> NoError]

Called(op, col, r) ==
    [op |-> op, col |-> col, status |-> r.status, tok |-> r.tok, err |-> r.err]

\* no lexer in use
LexIdle ==
    /\ source = <<>>
    /\ lex = NewLexer(<<>>)
    /\ prev = NewLexer(<<>>)
    /\ res = NoCall

\* no built-in call in progress
BuiltinIdle ==
    /\ bcall = [name |-> "", args |-> <<>>]
    /\ bret = [status |-> "idle"]

\* no text being parsed
ParseIdle ==
    /\ pc = "idle"
    /\ obj = [t |-> "none"]
    /\ text = <<>>
    /\ tree = [status |-> "idle"]
    /\ out = [status |-> "idle"]

LexInit ==
    /\ source \in Sources
    /\ lex = NewLexer(source)
    /\ prev = NewLexer(source)
    /\ res = NoCall
    /\ BuiltinIdle
    /\ ParseIdle

Call(op, col, r) ==
    /\ res.status # "panic"
    /\ r.lexer.line <= MaxLine
    /\ prev' = lex
    /\ lex' = IF r.status = "ok" THEN r.lexer ELSE lex
    /\ res' = Called(op, col, r)
    /\ UNCHANGED <<source, bvars, pvars>>

NextToken == Call("next_token", 0, next_token(lex))

NextKey == Call("next_key", 0, next_key(lex))

NextString == Call("next_string", 0, next_string(lex))

NextMultistring ==
    \E col \in 0..MaxCol, checked \in BOOLEAN :
        Call("next_multistring", col, next_multistring(lex, col, checked))

LexNext == NextToken \/ NextKey \/ NextString \/ NextMultistring

SpecLex == LexInit /\ [][LexNext]_vars


(***************************************************************************)
(* Properties of the lexer.                                                *)
(***************************************************************************)
\* the call just made was op and returned a token
Returned(op) == res.op = op /\ res.status = "ok"

\* source[offset .. offset + length]
Slice(s, offset, length) == SubSeq(s, offset + 1, offset + length)

\* C4: every returned token's location cuts exactly its span text out of the
\* source, the lexer's remaining input is exactly the source after the token,
\* and in every reachable lexer state offset + len(code) = len(source).
C4_LocationsCutTheSource ==
    /\ lex.offset + Len(lex.code) = Len(source)
    /\ lex.code = Drop(source, lex.offset)
    /\ (res.op # "new" /\ res.status = "ok") =>
          /\ res.tok.span = Slice(source, res.tok.loc.offset, res.tok.loc.length)
          /\ lex.code = Drop(source, res.tok.loc.offset + res.tok.loc.length)

\* a multi-line string token returned after an earlier token was consumed
C4_Witness ==
    /\ Returned("next_multistring")
    /\ res.tok.loc.offset > 0
    /\ res.tok.loc.length > 1
    /\ Len(lex.code) > 0

RECURSIVE Escaped(_, _)
\* the character at index i directly follows an escaping backslash, that is a
\* backslash which is not itself escaped
Escaped(code, i) ==
    i > 0 /\ code[i] = "\\" /\ ~Escaped(code, i - 1)

\* the index of the first unescaped quote, dollar or newline, else the end of input
RunEnd(code) ==
    LET stops == {i \in 0..(Len(code) - 1) :
                    code[i + 1] \in {"\"", "$", "\n"} /\ ~Escaped(code, i)}
    IN  IF stops = {} THEN Len(code)
        ELSE CHOOSE i \in stops : \A j \in stops : i <= j

\* the indices of the escaping backslashes of the run that are followed by a
\* character other than quote, backslash and dollar
BadEscapes(code) ==
    {i \in 0..(RunEnd(code) - 1) :
        /\ code[i + 1] = "\\"
        /\ ~Escaped(code, i)
        /\ At(code, i + 1) \notin {"", "\"", "\\", "$"}}

C6_InvalidEscape ==
    (/\ res.op = "next_string"
     /\ peek(prev) \notin {"\"", "$", "\n"}
     /\ BadEscapes(prev.code) # {}) =>
        LET i == CHOOSE b \in BadEscapes(prev.code) :
                    \A o \in BadEscapes(prev.code) : b <= o
        IN  /\ res.status = "err"
            /\ res.tok = NoToken
            /\ lex = prev
            /\ res.err.what = "UnexpectedChar"
            /\ res.err.ch = prev.code[i + 2]
            /\ res.err.loc.offset = prev.offset + i + 1
            /\ res.err.loc.column = prev.col + i + 1
            /\ res.err.loc.line = prev.line
            /\ source[res.err.loc.offset + 1] = res.err.ch

\* an invalid escape in the middle of a run that does not start the source
C6_Witness ==
    /\ res.op = "next_string"
    /\ res.status = "err"
    /\ res.err.what = "UnexpectedChar"
    /\ res.err.ch = "a"
    /\ prev.offset > 0
    /\ res.err.loc.offset > prev.offset + 1

\* the length of the line that starts at index i, its newline included
LineLen(code, i) ==
    LET f == FindFrom(code, "\n", i)
    IN  IF f >= 0 THEN f + 1 - i ELSE Len(code) - i

\* the number of leading non-newline whitespace bytes of the line at index i
Indentation(code, i) == RunIn(code, i, IndentChars)

RECURSIVE DeeperLines(_, _, _)
\* the index where the lines that start at index i stop being indented
\* strictly deeper than col
DeeperLines(code, i, col) ==
    IF i < Len(code) /\ Indentation(code, i) > col
    THEN DeeperLines(code, i + LineLen(code, i), col)
    ELSE i

\* C7: next_multistring(col) returns one MultiString token covering the rest of
\* the current line and every immediately following line indented strictly
\* deeper than col, and leaves the first line indented at most col unconsumed,
\* indentation included.
C7_MultistringCoversDeeperLines ==
    (res.op = "next_multistring" /\ prev.code # <<>>) =>
        LET n == DeeperLines(prev.code, LineLen(prev.code, 0), res.col)
        IN  /\ res.status = "ok"
            /\ res.tok.kind = "MultiString"
            /\ res.tok.span = Take(prev.code, n)
            /\ lex.code = Drop(prev.code, n)

\* what remains of C7 when the call does not panic
C7_UnlessPanic ==
    (Returned("next_multistring") /\ prev.code # <<>>) =>
        LET n == DeeperLines(prev.code, LineLen(prev.code, 0), res.col)
        IN  /\ res.tok.kind = "MultiString"
            /\ res.tok.span = Take(prev.code, n)
            /\ lex.code = Drop(prev.code, n)

\* the first call on a fresh lexer was next_token
FirstToken == res.op = "next_token" /\ prev = NewLexer(source)

\* C8: the expression-mode name lexer rejects the reserved words: next_token
\* never returns a Name token whose text is exactly a reserved word.
C8_NameLexerRejectsKeywords ==
    (Returned("next_token") /\ res.tok.kind = "Name") => res.tok.span \notin KEYWORDS

\* C8 as the code has it: next_token makes no reserved-word check.  A source
\* that is one name from end to end, a reserved word or not, comes back as
\* one Name token with that text.
C8_NameLexerKeepsKeywords ==
    (FirstToken /\ (source \in KEYWORDS \/ (source # <<>> /\ NAME(source) = Len(source)))) =>
        /\ res.status = "ok"
        /\ res.tok.kind = "Name"
        /\ res.tok.span = source
        /\ lex.code = <<>>

C8_Witness ==
    /\ FirstToken
    /\ source \in KEYWORDS
    /\ res.status = "ok"
    /\ res.tok.span = source

\* the characters the claim keeps out of a key: whitespace, quotes, braces,
\* parentheses, brackets and the colon
NotInKeys == {" ", "\t", "\n", "\r", "\f", "'", "\"", "{", "}", "(", ")", "[", "]", ":"}

\* what next_key makes of the text s, whose first character is no whitespace,
\* according to the claim: "" stands for no token
KeyToken(s) ==
    CASE At(s, 0) = "}" -> [kind |-> "CloseBrace", span |-> Take(s, 1)]
      [] At(s, 0) = "$" -> [kind |-> "Dollar", span |-> Take(s, 1)]
      [] At(s, 0) = "\"" -> [kind |-> "DoubleQuote", span |-> Take(s, 1)]
      [] At(s, 0) = ":" /\ At(s, 1) = ":" -> [kind |-> "DoubleColon", span |-> Take(s, 2)]
      [] At(s, 0) = ":" /\ At(s, 1) # ":" -> [kind |-> "Colon", span |-> Take(s, 1)]
      [] At(s, 0) = "." /\ At(s, 1) = "." /\ At(s, 2) = "." ->
            [kind |-> "Ellipsis", span |-> Take(s, 3)]
      [] OTHER -> [kind |-> "Name", span |-> Take(s, RunNotIn(s, 0, NotInKeys))]

RECURSIVE AfterLayout(_)
\* the text s after its leading whitespace and # comments
AfterLayout(s) ==
    CASE s = <<>> -> s
      [] s # <<>> /\ Head(s) \in Space -> AfterLayout(Tail(s))
      [] s # <<>> /\ Head(s) = "#" ->
            AfterLayout(IF Find(s, "\n") >= 0 THEN Drop(s, Find(s, "\n") + 1) ELSE <<>>)
      [] OTHER -> s

\* C20: in key mode next_key returns `}`, `$`, `"`, `::`, `:` and `...` as
\* punctuation tokens, `::` before `:`, and for any other first character a
\* single Name token that is the maximal run of characters containing no
\* whitespace, quote, brace, parenthesis, bracket or colon.
C20_KeyModeTokens ==
    (res.op = "next_key" /\ res.status # "panic") =>
        LET s == Drop(prev.code, RunIn(prev.code, 0, Space))
        IN  s # <<>> =>
                /\ res.status = "ok"
                /\ res.tok.kind = KeyToken(s).kind
                /\ res.tok.span = KeyToken(s).span
                /\ lex.code = Drop(s, Len(res.tok.span))

\* C20 as the code has it: whitespace and # comments are skipped first, and
\* a first character that a key cannot hold (a single quote, an opening
\* brace, a parenthesis or a bracket) is a syntax error, as is the end of
\* input; every other first character gives the token of the claim.
C20_KeyModeTokensAfterLayout ==
    (res.op = "next_key" /\ res.status # "panic") =>
        LET s == AfterLayout(prev.code)
        IN  IF s = <<>> \/ At(s, 0) \in {"'", "{", "(", ")", "[", "]"}
            THEN res.status = "err"
            ELSE /\ res.status = "ok"
                 /\ res.tok.kind = KeyToken(s).kind
                 /\ res.tok.span = KeyToken(s).span
                 /\ res.tok.loc.length >= 1
                 /\ lex.code = Drop(s, Len(res.tok.span))

\* the key a-a came back as one Name token
C20_Witness ==
    /\ res.op = "next_key"
    /\ prev = NewLexer(source)
    /\ source = <<"a", "-", "a">>
    /\ res.status = "ok"
    /\ res.tok.kind = "Name"
    /\ res.tok.span = source

\* s[a .. b) is a digit run: a digit followed by digits and underscores
IsDigits(s, a, b) ==
    /\ a < b
    /\ s[a + 1] \in Digits
    /\ \A k \in (a + 1)..(b - 1) : s[k + 1] \in Digits \cup {"_"}

\* s[a .. b) is an exponent: e or E, an optional sign, a digit run
IsExponent(s, a, b) ==
    /\ a < b
    /\ s[a + 1] \in {"e", "E"}
    /\ \/ IsDigits(s, a + 1, b)
       \/ a + 1 < b /\ s[a + 2] \in {"+", "-"} /\ IsDigits(s, a + 2, b)

\* s[a .. b) is empty or an exponent
IsOptExponent(s, a, b) == a = b \/ IsExponent(s, a, b)

\* the three float forms
IsFloatForm(s) ==
    LET n == Len(s)
    IN  \/ \E d \in 1..n, f \in 1..n :
              /\ d < f
              /\ IsDigits(s, 0, d) /\ s[d + 1] = "."
              /\ (f = d + 1 \/ IsDigits(s, d + 1, f))
              /\ IsOptExponent(s, f, n)
        \/ \E f \in 1..n :
              /\ n > 0 /\ s[1] = "."
              /\ IsDigits(s, 1, f)
              /\ IsOptExponent(s, f, n)
        \/ \E d \in 1..n :
              /\ IsDigits(s, 0, d)
              /\ IsExponent(s, d, n)

\* C9: each of the three float forms is lexed as one Float token, and a digit
\* run with neither '.' nor exponent as one Integer token.
C9_NumbersAreOneToken ==
    FirstToken =>
        /\ IsFloatForm(source) =>
              /\ res.status = "ok"
              /\ res.tok.kind = "Float"
              /\ res.tok.span = source
        /\ IsDigits(source, 0, Len(source)) =>
              /\ res.status = "ok"
              /\ res.tok.kind = "Integer"
              /\ res.tok.span = source

\* the float forms other than '.' digits with a signed exponent
C9_ExceptSignedDotForm ==
    FirstToken =>
        /\ (IsFloatForm(source)
              /\ ~(source[1] = "." /\ \E k \in 1..Len(source) : source[k] \in {"+", "-"})) =>
              /\ res.status = "ok"
              /\ res.tok.kind = "Float"
              /\ res.tok.span = source
        /\ IsDigits(source, 0, Len(source)) =>
              /\ res.status = "ok"
              /\ res.tok.kind = "Integer"
              /\ res.tok.span = source


\* the number of leading bytes of s that are whitespace or lie in a # comment
LayoutLen(s) == Len(s) - Len(AfterLayout(s))

\* C21: before recognizing a token, next_token skips every run of non-newline
\* whitespace, newlines and # comments, a comment reaching through the next
\* newline or to the end of input; so the token it returns (and the error it
\* reports) begins at the first byte that lies outside all of these, and no
\* token begins inside a comment.
C21_TokensBeginAfterLayout ==
    res.op = "next_token" =>
        LET s  == AfterLayout(prev.code)
            at == prev.offset + LayoutLen(prev.code)
        IN  /\ res.status \in {"ok", "err"}
            /\ res.status = "ok" =>
                  /\ res.tok.loc.offset = at
                  /\ res.tok.loc.length >= 1
                  /\ res.tok.span = Take(s, res.tok.loc.length)
                  /\ res.tok.span[1] \notin Space \cup {"#"}
            /\ res.status = "err" => res.err.loc.offset = at
            /\ s = <<>> => res.status = "err" /\ res.err.what = "UnexpectedEof"

\* a name returned after a comment, its newline and an indentation
C21_Witness ==
    /\ Returned("next_token")
    /\ prev = NewLexer(source)
    /\ source = <<"#", "\n", " ", "a">>
    /\ res.tok.span = <<"a">>
    /\ res.tok.loc.offset = 3

\* the number of newline characters of s
Newlines(s) == Cardinality({i \in 1..Len(s) : s[i] = "\n"})

\* the number of bytes of s after its last newline, all of s when it has none
SinceNewline(s) ==
    LET nl == {i \in 1..Len(s) : s[i] = "\n"}
    IN  IF nl = {} THEN Len(s) ELSE Len(s) - CHOOSE i \in nl : \A j \in nl : j <= i

\* the lexer's position counts the consumed prefix of the source
PositionCounts(lx) ==
    LET consumed == Take(source, lx.offset)
    IN  /\ lx.line = 1 + Newlines(consumed)
        /\ lx.col = SinceNewline(consumed)

\* C26: after any sequence of successful lexer calls the lexer's line is 1 plus
\* the number of newlines in the consumed prefix of the source and its column
\* is the number of bytes consumed since the last consumed newline, also after
\* a comment or multi-line string that ends at the end of input without a
\* newline.
C26_LineAndColumnCountTheSource == PositionCounts(lex)

\* what remains of C26: the position is right while input remains or the last
\* call did not end a line; next_multistring counts a line at the end of
\* input whether or not a newline ends it
C26_UnlessAtEndOfInput ==
    (lex.code # <<>> \/ lex.col > 0) => PositionCounts(lex)

\* C27: next_multistring is total: for every remaining input, the empty input
\* and a final whitespace-only line deeper than col without a newline
\* included, and every column it returns a MultiString token; computing the
\* end of a line never underflows.
C27_MultistringIsTotal ==
    res.op = "next_multistring" =>
        /\ res.status = "ok"
        /\ res.tok.kind = "MultiString"

\* what remains of C27: the call panics only where the remainder of a line is
\* empty at the end of input, and only when overflow is checked
C27_PanicsOnlyAtEndOfInput ==
    (res.op = "next_multistring" /\ res.status # "ok") =>
        /\ res.status = "panic"
        /\ lex = prev
        /\ \/ prev.code = <<>>
           \/ prev.code[Len(prev.code)] \in IndentChars

\* the last call returned a token of at least one byte and moved the lexer on
Progress ==
    /\ res.tok.loc.length >= 1
    /\ Len(res.tok.span) = res.tok.loc.length
    /\ lex.offset >= prev.offset + res.tok.loc.length

\* C28: every successful lexer call makes progress: the returned token has
\* length at least 1 and the returned lexer's offset is strictly greater than
\* the input lexer's offset.
C28_SuccessfulCallsMakeProgress ==
    (res.op # "new" /\ res.status = "ok") => Progress

\* what remains of C28: next_token, next_key and next_string make progress,
\* and so does next_multistring while input remains
C28_ProgressWhileInputRemains ==
    (res.op # "new" /\ res.status = "ok" /\ prev.code # <<>>) => Progress

\* next_token makes progress, so that at most len(source) tokens are returned
C28_TokensMakeProgress ==
    Returned("next_token") => Progress

(***************************************************************************)
(* Values (Object) and the built-in functions of builtins.rs.              *)
(*                                                                         *)
(* An Integer is a value n in one of two representations, Small (i64) or   *)
(* Big (BigInt).  A Float is a decimal m * 10^e, or NaN or an infinity, or *)
(* the symbolic result of a transcendental function.                       *)
(***************************************************************************)
\* width of the bounded integer representation, scaled down from 64 bits
IntBits == 24

I64_MAX == 2 ^ (IntBits - 1) - 1

I64_MIN == 0 - 2 ^ (IntBits - 1)

FitsI64(n) == I64_MIN <= n /\ n <= I64_MAX

Small(n) == [t |-> "Integer", big |-> FALSE, n |-> n]

Big(n) == [t |-> "Integer", big |-> TRUE, n |-> n]

Float(m, e) == [t |-> "Float", sp |-> "finite", m |-> m, e |-> e]

FloatNaN == [t |-> "Float", sp |-> "nan", m |-> 0, e |-> 0]

FloatInf == [t |-> "Float", sp |-> "inf", m |-> 0, e |-> 0]

FloatNegInf == [t |-> "Float", sp |-> "-inf", m |-> 0, e |-> 0]

RECURSIVE F64(_, _)
\* the f64 of value m * 10^e, in the one form the model keeps for it: no
\* positive exponent, no trailing zero in a fraction, and one zero
F64(m, e) ==
    IF m = 0 THEN Float(0, 0)
    ELSE IF e > 0 THEN F64(m * 10, e - 1)
    ELSE IF e < 0 /\ m % 10 = 0 THEN F64(m \div 10, e + 1)
    ELSE Float(m, e)

\* the result of f64::exp, ln, log or powf, left uninterpreted
FloatOf(fn, x, y) == [t |-> "Float", sp |-> fn, x |-> x, y |-> y]

Boolean(b) == [t |-> "Boolean", b |-> b]

Str(s) == [t |-> "String", s |-> s]

List(items) == [t |-> "List", items |-> items]

Map(entries) == [t |-> "Map", entries |-> entries]

Null == [t |-> "Null"]

BuiltinFunc(name) == [t |-> "Function", f |-> "Builtin", name |-> name]

Closure(id) == [t |-> "Function", f |-> "Closure", id |-> id]

NativeClosure(id) == [t |-> "Function", f |-> "NativeClosure", id |-> id]

\* a function equality that compares what the two functions are
user_eq_by_identity(this, that) == this = that

\* Func::user_eq
user_eq(this, that) ==
    IF this.f = "Builtin" /\ that.f = "Builtin" THEN this.name = that.name ELSE FALSE

\* Object::type_of
type_of(x) == x.t

\* Object::truthy: only null and false are falsy
truthy(x) == ~(x = Null \/ x = Boolean(FALSE))

\* Object::numeric_normalize: the bounded representation whenever the value fits
numeric_normalize(x) ==
    IF x.t = "Integer" THEN (IF FitsI64(x.n) THEN Small(x.n) ELSE Big(x.n)) ELSE x

\* an Integer in the representation its value requires
IsNormalized(x) == x.t = "Integer" => (x.big <=> ~FitsI64(x.n))

Abs(n) == IF n < 0 THEN 0 - n ELSE n

\* f64::round, half away from zero, of the finite decimal m * 10^e
Round(m, e) ==
    IF e >= 0 THEN m * 10 ^ e
    ELSE LET d == 10 ^ (0 - e)
             q == Abs(m) \div d
             r == Abs(m) % d
             a == IF 2 * r >= d THEN q + 1 ELSE q
         IN  IF m < 0 THEN 0 - a ELSE a

\* `x.round() as i64`: the cast saturates, and NaN becomes 0
RoundAsI64(x) ==
    CASE x.sp = "nan" -> 0
      [] x.sp = "inf" -> I64_MAX
      [] x.sp = "-inf" -> I64_MIN
      [] x.sp = "finite" ->
            LET r == Round(x.m, x.e)
            IN  IF r > I64_MAX THEN I64_MAX ELSE IF r < I64_MIN THEN I64_MIN ELSE r
      [] OTHER -> 0

RECURSIVE DigitsValue(_, _)
\* the value of the digits of s, underscores skipped, after the accumulator acc
DigitsValue(s, acc) ==
    IF s = <<>> THEN acc
    ELSE IF Head(s) = "_" THEN DigitsValue(Tail(s), acc)
    ELSE DigitsValue(Tail(s), 10 * acc + (CHOOSE d \in 0..9 : ToString(d) = Head(s)))

\* BigInt::from_str: an optional sign, then digits with `_` allowed between
\* them but not first; -1 in `ok` marks a parse error
BigIntFromStr(s) ==
    LET neg  == s # <<>> /\ Head(s) = "-"
        s1   == IF neg /\ At(s, 1) # "+" THEN Tail(s) ELSE s
        s2   == IF s1 # <<>> /\ Head(s1) = "+" /\ At(s1, 1) # "+" THEN Tail(s1) ELSE s1
        good == /\ s2 # <<>>
                /\ Head(s2) # "_"
                /\ \A k \in 1..Len(s2) : s2[k] \in Digits \cup {"_"}
                /\ \E k \in 1..Len(s2) : s2[k] \in Digits
    IN  IF good
        THEN [ok |-> TRUE, n |-> IF neg THEN 0 - DigitsValue(s2, 0) ELSE DigitsValue(s2, 0)]
        ELSE [ok |-> FALSE, n |-> 0]

\* Object::to_f64 of a number; "none" for any other variant
to_f64(x) ==
    CASE x.t = "Integer" -> Float(x.n, 0)
      [] x.t = "Float" -> x
      [] OTHER -> [t |-> "none"]

(***************************************************************************)
(* Display: Object::to_string, the canonical text of a value.              *)
(***************************************************************************)
RECURSIVE NatDigits(_)
\* the decimal digits of a natural number
NatDigits(n) ==
    IF n < 10 THEN <<ToString(n)>> ELSE Append(NatDigits(n \div 10), ToString(n % 10))

\* the characters of a literal text
Chars(str_) ==
    CASE str_ = "true" -> <<"t", "r", "u", "e">>
      [] str_ = "false" -> <<"f", "a", "l", "s", "e">>
      [] str_ = "null" -> <<"n", "u", "l", "l">>
      [] str_ = "NaN" -> <<"N", "a", "N">>
      [] str_ = "inf" -> <<"i", "n", "f">>
      [] str_ = "-inf" -> <<"-", "i", "n", "f">>
      [] str_ = ", " -> <<",", " ">>
      [] str_ = ": " -> <<":", " ">>
      [] str_ = "function" -> <<"f", "u", "n", "c", "t", "i", "o", "n">>
      [] str_ = "float" -> <<"f", "l", "o", "a", "t">>
      [] str_ = "len" -> <<"l", "e", "n">>
      [] str_ = "range" -> <<"r", "a", "n", "g", "e">>
      [] str_ = "int" -> <<"i", "n", "t">>
      [] str_ = "bool" -> <<"b", "o", "o", "l">>
      [] str_ = "str" -> <<"s", "t", "r">>
      [] str_ = "map" -> <<"m", "a", "p">>
      [] str_ = "filter" -> <<"f", "i", "l", "t", "e", "r">>
      [] str_ = "items" -> <<"i", "t", "e", "m", "s">>
      [] str_ = "exp" -> <<"e", "x", "p">>
      [] str_ = "log" -> <<"l", "o", "g">>
      [] str_ = "ord" -> <<"o", "r", "d">>
      [] str_ = "chr" -> <<"c", "h", "r">>
      [] str_ = "isint" -> <<"i", "s", "i", "n", "t">>
      [] str_ = "isstr" -> <<"i", "s", "s", "t", "r">>
      [] str_ = "isnull" -> <<"i", "s", "n", "u", "l", "l">>
      [] str_ = "isbool" -> <<"i", "s", "b", "o", "o", "l">>
      [] str_ = "isfloat" -> <<"i", "s", "f", "l", "o", "a", "t">>
      [] str_ = "isnumber" -> <<"i", "s", "n", "u", "m", "b", "e", "r">>
      [] str_ = "isobject" -> <<"i", "s", "o", "b", "j", "e", "c", "t">>
      [] str_ = "islist" -> <<"i", "s", "l", "i", "s", "t">>
      [] str_ = "isfunc" -> <<"i", "s", "f", "u", "n", "c">>
      [] OTHER -> <<"?">>

\* Display of an integer
IntToString(n) == IF n < 0 THEN <<"-">> \o NatDigits(0 - n) ELSE NatDigits(n)

RECURSIVE Zeros(_)
Zeros(k) == IF k <= 0 THEN <<>> ELSE <<"0">> \o Zeros(k - 1)

\* Display of the finite f64 m * 10^e (m not a multiple of 10 when e < 0):
\* positional notation, never an exponent, and no fractional part when the
\* value is integral
FloatToString(m, e) ==
    LET sign == IF m < 0 THEN <<"-">> ELSE <<>>
        ds   == NatDigits(Abs(m))
    IN  IF e >= 0 THEN sign \o ds \o (IF m = 0 THEN <<>> ELSE Zeros(e))
        ELSE LET d   == 0 - e
                 pad == Zeros(d + 1 - Len(ds)) \o ds
             IN  sign \o Take(pad, Len(pad) - d) \o <<".">> \o Drop(pad, Len(pad) - d)

RECURSIVE EscapeString(_)
\* a string with every quote and backslash preceded by a backslash
EscapeString(s) ==
    IF s = <<>> THEN <<>>
    ELSE (IF Head(s) \in {"\"", "\\"} THEN <<"\\", Head(s)>> ELSE <<Head(s)>>)
            \o EscapeString(Tail(s))

RECURSIVE to_string(_)

RECURSIVE JoinShown(_)
\* the displays of the values xs, separated by ", "
JoinShown(xs) ==
    IF xs = <<>> THEN <<>>
    ELSE IF Len(xs) = 1 THEN to_string(xs[1])
    ELSE to_string(xs[1]) \o Chars(", ") \o JoinShown(Tail(xs))

RECURSIVE JoinEntries(_)
\* the displays of the map entries es, separated by ", "
JoinEntries(es) ==
    IF es = <<>> THEN <<>>
    ELSE es[1][1] \o Chars(": ") \o to_string(es[1][2])
            \o (IF Len(es) = 1 THEN <<>> ELSE Chars(", ") \o JoinEntries(Tail(es)))

\* Object::to_string
to_string(x) ==
    CASE x.t = "Integer" -> IntToString(x.n)
      [] x.t = "Float" ->
            (CASE x.sp = "finite" -> FloatToString(x.m, x.e)
               [] x.sp = "nan" -> Chars("NaN")
               [] x.sp = "inf" -> Chars("inf")
               [] x.sp = "-inf" -> Chars("-inf")
               [] OTHER -> Chars("float"))
      [] x.t = "Boolean" -> IF x.b THEN Chars("true") ELSE Chars("false")
      [] x.t = "Null" -> Chars("null")
      [] x.t = "String" -> <<"\"">> \o EscapeString(x.s) \o <<"\"">>
      [] x.t = "List" -> <<"[">> \o JoinShown(x.items) \o <<"]">>
      [] x.t = "Map" -> <<"{">> \o JoinEntries(x.entries) \o <<"}">>
      [] OTHER -> Chars("function")

(***************************************************************************)
(* Results of a built-in: Ok(object), Err(error) or a panic.               *)
(***************************************************************************)
BOk(v) == [status |-> "ok", val |-> v]

BErr(e) == [status |-> "err", err |-> e]

BPanic == [status |-> "panic"]

\* TypeMismatch::ArgCount(min, max, actual)
ArgCount(lo, hi, n) == BErr([kind |-> "ArgCount", min |-> lo, max |-> hi, actual |-> n])

\* TypeMismatch::ExpectedArg(index, expected types, actual type)
ExpectedArg(i, types, actual) ==
    BErr([kind |-> "ExpectedArg", index |-> i, expected |-> types, actual |-> actual])

\* Value::Convert, Value::TooLong, Value::OutOfRange
ValueError(kind) == BErr([kind |-> kind])

\* TypeMismatch::Call: the callee is not a function
NotCallable(x) == BErr([kind |-> "Call", actual |-> type_of(x)])

Is(args, k, t) == Len(args) >= k /\ args[k].t = t

\* a range that holds its upper bound
IntRange_through(lo, hi) ==
    IF hi < lo THEN <<>> ELSE [k \in 1..(hi - lo + 1) |-> numeric_normalize(Small(lo + k - 1))]

\* the list of Integers lo, lo + 1, ..., hi - 1
IntRange(lo, hi) ==
    IF hi <= lo THEN <<>> ELSE [k \in 1..(hi - lo) |-> numeric_normalize(Small(lo + k - 1))]

\* the code points of the characters that strings of the model are made of
CharTable ==
    [n \in {34, 36, 49, 55, 92, 97, 98} |->
        CASE n = 34 -> "\"" [] n = 36 -> "$" [] n = 49 -> "1" [] n = 55 -> "7"
          [] n = 92 -> "\\" [] n = 97 -> "a" [] n = 98 -> "b"]

\* u32::MAX, scaled with IntBits (two bits below the Integer width)
U32_MAX == 2 ^ (IntBits - 2) - 1

\* the largest Unicode scalar value, 0x10FFFF
CHAR_MAX == 1114111

\* the surrogate range 0xD800..0xDFFF holds no scalar value
SURROGATE_LO == 55296

SURROGATE_HI == 57343

\* the character of scalar value n: a table character, or one named by its value
CharOf(n) == IF n \in DOMAIN CharTable THEN CharTable[n] ELSE "U+" \o ToString(n)

\* scalar values whose characters the model can take the code point of
ScalarSamples ==
    DOMAIN CharTable \cup {0, 2, SURROGATE_LO - 1, SURROGATE_HI + 1, 128013, CHAR_MAX}

\* `c as i64`: the scalar value of a character
CodePoint(c) == CHOOSE n \in ScalarSamples : CharOf(n) = c

\* char::len_utf8: the bytes the scalar c takes in a str
len_utf8(c) ==
    CASE CodePoint(c) < 128 -> 1
      [] CodePoint(c) >= 128 /\ CodePoint(c) < 2048 -> 2
      [] CodePoint(c) >= 2048 /\ CodePoint(c) < 65536 -> 3
      [] OTHER -> 4

RECURSIVE str_len(_)
\* str::len: the length of a string in bytes
str_len(s) == IF s = <<>> THEN 0 ELSE len_utf8(Head(s)) + str_len(Tail(s))

\* a len that measures a string in bytes
len_in_bytes(args) ==
    CASE Len(args) = 1 /\ Is(args, 1, "String") -> BOk(Small(str_len(args[1].s)))
      [] Len(args) = 1 /\ Is(args, 1, "List") -> BOk(Small(Len(args[1].items)))
      [] Len(args) = 1 /\ Is(args, 1, "Map") -> BOk(Small(Len(args[1].entries)))
      [] Len(args) = 1 /\ args[1].t \notin {"String", "List", "Map"} ->
            ExpectedArg(0, {"String", "List", "Map"}, type_of(args[1]))
      [] OTHER -> ArgCount(1, 1, Len(args))

len(args) ==
    CASE Len(args) = 1 /\ Is(args, 1, "String") -> BOk(Small(Len(args[1].s)))
      [] Len(args) = 1 /\ Is(args, 1, "List") -> BOk(Small(Len(args[1].items)))
      [] Len(args) = 1 /\ Is(args, 1, "Map") -> BOk(Small(Len(args[1].entries)))
      [] Len(args) = 1 /\ args[1].t \notin {"String", "List", "Map"} ->
            ExpectedArg(0, {"String", "List", "Map"}, type_of(args[1]))
      [] OTHER -> ArgCount(1, 1, Len(args))

range(args) ==
    CASE Len(args) = 2 /\ Is(args, 1, "Integer") /\ Is(args, 2, "Integer") ->
            BOk(List(IntRange(args[1].n, args[2].n)))
      [] Len(args) = 2 /\ Is(args, 1, "Integer") /\ ~Is(args, 2, "Integer") ->
            ExpectedArg(1, {"Integer"}, type_of(args[2]))
      [] Len(args) = 2 /\ ~Is(args, 1, "Integer") /\ Is(args, 2, "Integer") ->
            ExpectedArg(0, {"Integer"}, type_of(args[1]))
      [] Len(args) = 1 /\ Is(args, 1, "Integer") -> BOk(List(IntRange(0, args[1].n)))
      [] Len(args) = 1 /\ ~Is(args, 1, "Integer") ->
            ExpectedArg(0, {"Integer"}, type_of(args[1]))
      [] OTHER -> ArgCount(1, 2, Len(args))

int(args) ==
    CASE Len(args) = 1 /\ Is(args, 1, "Integer") -> BOk(args[1])
      [] Len(args) = 1 /\ Is(args, 1, "Float") -> BOk(Small(RoundAsI64(args[1])))
      [] Len(args) = 1 /\ Is(args, 1, "Boolean") -> BOk(Small(IF args[1].b THEN 1 ELSE 0))
      [] Len(args) = 1 /\ Is(args, 1, "String") ->
            LET p == BigIntFromStr(args[1].s)
            IN  IF p.ok THEN BOk(numeric_normalize(Big(p.n))) ELSE ValueError("Convert")
      [] Len(args) = 1 /\ args[1].t \notin {"Integer", "Float", "Boolean", "String"} ->
            ExpectedArg(0, {"Integer", "Float", "Boolean", "String"}, type_of(args[1]))
      [] OTHER -> ArgCount(1, 1, Len(args))

\* f64::from_str: an optional sign, then inf, NaN, or digits with an optional
\* fraction and an optional exponent (at least one digit before the exponent)
F64FromStr(s) ==
    LET sgn    == IF s # <<>> /\ Head(s) \in {"-", "+"} THEN 1 ELSE 0
        neg    == sgn = 1 /\ Head(s) = "-"
        u      == Drop(s, sgn)
        ip     == RunIn(u, 0, Digits)
        hasdot == At(u, ip) = "."
        fp     == IF hasdot THEN RunIn(u, ip + 1, Digits) ELSE 0
        mend   == ip + (IF hasdot THEN 1 + fp ELSE 0)
        hasexp == At(u, mend) \in {"e", "E"}
        es     == IF hasexp /\ At(u, mend + 1) \in {"+", "-"} THEN 1 ELSE 0
        ed     == IF hasexp THEN RunIn(u, mend + 1 + es, Digits) ELSE 0
        tot    == mend + (IF hasexp THEN 1 + es + ed ELSE 0)
        good   == ip + fp > 0 /\ (hasexp => ed > 0) /\ tot = Len(u)
        m      == DigitsValue(SubSeq(u, 1, ip) \o SubSeq(u, ip + 2, ip + 1 + fp), 0)
        x      == DigitsValue(SubSeq(u, mend + 2 + es, mend + 1 + es + ed), 0)
        e      == (IF hasexp THEN (IF At(u, mend + 1) = "-" THEN 0 - x ELSE x) ELSE 0) - fp
    IN  CASE good -> [ok |-> TRUE, val |-> F64(IF neg THEN 0 - m ELSE m, e)]
          [] ~good /\ u = <<"i", "n", "f">> ->
                [ok |-> TRUE, val |-> IF neg THEN FloatNegInf ELSE FloatInf]
          [] ~good /\ u = <<"N", "a", "N">> -> [ok |-> TRUE, val |-> FloatNaN]
          [] OTHER -> [ok |-> FALSE, val |-> FloatNaN]

float(args) ==
    CASE Len(args) = 1 /\ Is(args, 1, "Integer") -> BOk(to_f64(args[1]))
      [] Len(args) = 1 /\ Is(args, 1, "Float") -> BOk(args[1])
      [] Len(args) = 1 /\ Is(args, 1, "Boolean") -> BOk(Float(IF args[1].b THEN 1 ELSE 0, 0))
      [] Len(args) = 1 /\ Is(args, 1, "String") ->
            LET p == F64FromStr(args[1].s)
            IN  IF p.ok THEN BOk(p.val) ELSE ValueError("Convert")
      [] Len(args) = 1 /\ args[1].t \notin {"Integer", "Float", "Boolean", "String"} ->
            ExpectedArg(0, {"Integer", "Float", "Boolean", "String"}, type_of(args[1]))
      [] OTHER -> ArgCount(1, 1, Len(args))

bool(args) ==
    IF Len(args) = 1 THEN BOk(Boolean(truthy(args[1])))
    ELSE ArgCount(1, 1, Len(args))

\* a str that displays a string like any other value, quotes included
str_displaying_strings(args) ==
    IF Len(args) = 1 THEN BOk(Str(to_string(args[1])))
    ELSE ArgCount(1, 1, Len(args))

str(args) ==
    CASE Len(args) = 1 /\ Is(args, 1, "String") -> BOk(args[1])
      [] Len(args) = 1 /\ ~Is(args, 1, "String") -> BOk(Str(to_string(args[1])))
      [] OTHER -> ArgCount(1, 1, Len(args))

items(args) ==
    CASE Len(args) = 1 /\ Is(args, 1, "Map") ->
            BOk(List([k \in 1..Len(args[1].entries) |->
                        List(<<Str(args[1].entries[k][1]), args[1].entries[k][2]>>)]))
      [] Len(args) = 1 /\ ~Is(args, 1, "Map") -> ExpectedArg(0, {"Map"}, type_of(args[1]))
      [] OTHER -> ArgCount(1, 1, Len(args))

exp(args) ==
    IF Len(args) # 1 /\ Len(args) # 2 THEN ArgCount(1, 2, Len(args))
    ELSE LET power == to_f64(args[1])
         IN  IF power.t = "none"
             THEN ExpectedArg(0, {"Integer", "Float"}, type_of(args[1]))
             ELSE CASE Len(args) = 2 /\ Is(args, 2, "Float") ->
                          BOk(FloatOf("powf", args[2], power))
                    [] Len(args) = 2 /\ Is(args, 2, "Integer") ->
                          BOk(FloatOf("powf", to_f64(args[2]), power))
                    [] Len(args) = 2 /\ args[2].t \notin {"Float", "Integer"} ->
                          ExpectedArg(1, {"Integer", "Float"}, type_of(args[2]))
                    [] OTHER -> BOk(FloatOf("exp", power, Null))

log(args) ==
    IF Len(args) # 1 /\ Len(args) # 2 THEN ArgCount(1, 2, Len(args))
    ELSE LET power == to_f64(args[1])
         IN  IF power.t = "none"
             THEN ExpectedArg(0, {"Integer", "Float"}, type_of(args[1]))
             ELSE CASE Len(args) = 2 /\ Is(args, 2, "Float") ->
                          BOk(FloatOf("log", power, args[2]))
                    [] Len(args) = 2 /\ Is(args, 2, "Integer") ->
                          BOk(FloatOf("log", power, to_f64(args[2])))
                    [] Len(args) = 2 /\ args[2].t \notin {"Float", "Integer"} ->
                          ExpectedArg(1, {"Integer", "Float"}, type_of(args[2]))
                    [] OTHER -> BOk(FloatOf("ln", power, Null))


ord(args) ==
    CASE Len(args) = 1 /\ Is(args, 1, "String") ->
            IF Len(args[1].s) # 1 THEN ValueError("TooLong")
            ELSE BOk(Small(CodePoint(args[1].s[1])))
      [] Len(args) = 1 /\ ~Is(args, 1, "String") ->
            ExpectedArg(1, {"String"}, type_of(args[1]))
      [] OTHER -> ArgCount(1, 1, Len(args))

\* a chr that takes the surrogates for scalar values
chr_of_any_code_point(args) ==
    CASE Len(args) = 1 /\ Is(args, 1, "Integer") ->
            LET x == args[1].n
            IN  IF x < 0 \/ x > CHAR_MAX THEN ValueError("OutOfRange")
                ELSE BOk(Str(<<CharOf(x)>>))
      [] Len(args) = 1 /\ ~Is(args, 1, "Integer") ->
            ExpectedArg(1, {"Integer"}, type_of(args[1]))
      [] OTHER -> ArgCount(1, 1, Len(args))

chr(args) ==
    CASE Len(args) = 1 /\ Is(args, 1, "Integer") ->
            LET x == args[1].n
            IN  IF x < 0 \/ x > U32_MAX THEN ValueError("OutOfRange")
                ELSE IF x > CHAR_MAX \/ (SURROGATE_LO <= x /\ x <= SURROGATE_HI)
                THEN ValueError("OutOfRange")
                ELSE BOk(Str(<<CharOf(x)>>))
      [] Len(args) = 1 /\ ~Is(args, 1, "Integer") ->
            ExpectedArg(1, {"Integer"}, type_of(args[1]))
      [] OTHER -> ArgCount(1, 1, Len(args))

\* the is* predicates: true on the variants in `types`
is_variant(args, types) ==
    IF Len(args) = 1 THEN BOk(Boolean(args[1].t \in types))
    ELSE ArgCount(1, 1, Len(args))

isint(args) == is_variant(args, {"Integer"})

isstr(args) == is_variant(args, {"String"})

isnull(args) == is_variant(args, {"Null"})

isbool(args) == is_variant(args, {"Boolean"})

isfloat(args) == is_variant(args, {"Float"})

isnumber(args) == is_variant(args, {"Integer", "Float"})

isobject(args) == is_variant(args, {"Map"})

islist(args) == is_variant(args, {"List"})

isfunc(args) == is_variant(args, {"Function"})

\* the names of the BUILTINS table
BUILTINS ==
    {"len", "range", "int", "float", "bool", "str", "map", "filter", "items",
     "exp", "log", "ord", "chr", "isint", "isstr", "isnull", "isbool", "isfloat",
     "isnumber", "isobject", "islist", "isfunc"}

\* what calling a closure on x returns: the closures of the model are
\* 1: the identity, 2: always null, 3: always fails
ClosureCall(id, args) ==
    CASE id = 1 -> IF Len(args) = 1 THEN BOk(args[1]) ELSE ArgCount(1, 1, Len(args))
      [] id = 2 -> BOk(Null)
      [] OTHER -> BErr([kind |-> "Raised"])

RECURSIVE call_builtin(_, _)

RECURSIVE map_loop_past_failures(_, _, _)
\* a loop of map that drops the elements its callee fails on
map_loop_past_failures(f, xs, ret) ==
    IF xs = <<>> THEN BOk(List(ret))
    ELSE LET elt == IF f.t # "Function" THEN NotCallable(f)
                    ELSE IF f.f = "Builtin" THEN call_builtin(f.name, <<Head(xs)>>)
                    ELSE ClosureCall(f.id, <<Head(xs)>>)
         IN  map_loop_past_failures(f, Tail(xs),
                    IF elt.status = "ok" THEN Append(ret, elt.val) ELSE ret)

RECURSIVE map_loop(_, _, _)
\* the loop of map over the elements xs, with the results so far in ret
map_loop(f, xs, ret) ==
    IF xs = <<>> THEN BOk(List(ret))
    ELSE LET elt == IF f.t # "Function" THEN NotCallable(f)
                    ELSE IF f.f = "Builtin" THEN call_builtin(f.name, <<Head(xs)>>)
                    ELSE ClosureCall(f.id, <<Head(xs)>>)
         IN  IF elt.status = "ok" THEN map_loop(f, Tail(xs), Append(ret, elt.val))
             ELSE elt

RECURSIVE filter_loop(_, _, _)
\* the loop of filter over the elements xs, with the elements kept so far in ret
filter_loop(f, xs, ret) ==
    IF xs = <<>> THEN BOk(List(ret))
    ELSE LET elt == IF f.t # "Function" THEN NotCallable(f)
                    ELSE IF f.f = "Builtin" THEN call_builtin(f.name, <<Head(xs)>>)
                    ELSE ClosureCall(f.id, <<Head(xs)>>)
         IN  IF elt.status = "ok"
             THEN filter_loop(f, Tail(xs),
                              IF truthy(elt.val) THEN Append(ret, Head(xs)) ELSE ret)
             ELSE elt

\* map: `&args[1..]` panics on an empty argument list
map(args) ==
    IF Len(args) = 0 THEN BPanic
    ELSE CASE Len(args) = 2 /\ Is(args, 2, "List") -> map_loop(args[1], args[2].items, <<>>)
           [] Len(args) = 2 /\ ~Is(args, 2, "List") ->
                 ExpectedArg(1, {"List"}, type_of(args[2]))
           [] OTHER -> ArgCount(2, 2, (Len(args) - 1) + 1)

\* filter: `&args[1..]` panics on an empty argument list
filter(args) ==
    IF Len(args) = 0 THEN BPanic
    ELSE CASE Len(args) = 2 /\ Is(args, 2, "List") -> filter_loop(args[1], args[2].items, <<>>)
           [] Len(args) = 2 /\ ~Is(args, 2, "List") ->
                 ExpectedArg(1, {"List"}, type_of(args[2]))
           [] OTHER -> ArgCount(2, 2, (Len(args) - 1) + 1)

\* Builtin::call: the function the BUILTINS table holds under `name`
call_builtin(name, args) ==
    CASE name = "len" -> len(args)
      [] name = "range" -> range(args)
      [] name = "int" -> int(args)
      [] name = "float" -> float(args)
      [] name = "bool" -> bool(args)
      [] name = "str" -> str(args)
      [] name = "map" -> map(args)
      [] name = "filter" -> filter(args)
      [] name = "items" -> items(args)
      [] name = "exp" -> exp(args)
      [] name = "log" -> log(args)
      [] name = "ord" -> ord(args)
      [] name = "chr" -> chr(args)
      [] name = "isint" -> isint(args)
      [] name = "isstr" -> isstr(args)
      [] name = "isnull" -> isnull(args)
      [] name = "isbool" -> isbool(args)
      [] name = "isfloat" -> isfloat(args)
      [] name = "isnumber" -> isnumber(args)
      [] name = "isobject" -> isobject(args)
      [] name = "islist" -> islist(args)
      [] name = "isfunc" -> isfunc(args)

\* Object::call, and Func::call for the functions among the objects
call(f, args) ==
    IF f.t # "Function" THEN NotCallable(f)
    ELSE IF f.f = "Builtin" THEN call_builtin(f.name, args)
    ELSE ClosureCall(f.id, args)


(***************************************************************************)
(* Calling a built-in: the evaluator hands it the positional arguments.    *)
(***************************************************************************)
\* most positional arguments of a call
MaxArgs == 3

\* argument values, one or more of every variant
ArgValues ==
    {Small(2), Small(-1), Float(15, -1), Float(I64_MAX + 1, 0), Boolean(TRUE),
     Str(<<"a">>), List(<<Small(1)>>), Map(<<>>), Null, BuiltinFunc("isint")}

\* longest list handed to map and filter
MaxMapLen == 3

\* what map and filter are called with: callees that succeed on some
\* elements and fail on others, callees that are no functions, and lists of
\* elements of several variants
MapCallees ==
    {BuiltinFunc("len"), BuiltinFunc("bool"), BuiltinFunc("isint"), Closure(1),
     Closure(3), Null, Small(2)}

MapItems == {Small(2), Str(<<"a">>), Null, List(<<>>)}

MapCalls ==
    [name : {"map", "filter"},
     args : {<<f, List(xs)>> : f \in MapCallees, xs \in BSeq(MapItems, MaxMapLen)}]

\* what ord and chr are called with: the scalar values of the model, the
\* ends of the surrogate range, and integers below zero, above char::MAX,
\* above u32::MAX and above i64::MAX; strings of no, one and two scalars
ChrArguments ==
    {Small(n) : n \in ScalarSamples \cup {-1, SURROGATE_LO, SURROGATE_HI, CHAR_MAX + 1,
                                          U32_MAX + 1}}
        \cup {Big(I64_MAX + 1)}

OrdArguments ==
    {Str(<<>>), Str(<<"a", "b">>)} \cup {Str(<<CharOf(n)>>) : n \in ScalarSamples}

OrdChrCalls ==
    [name : {"chr"}, args : {<<x>> : x \in ChrArguments}]
        \cup [name : {"ord"}, args : {<<x>> : x \in OrdArguments}]

\* largest magnitude of an end of a range
MaxRange == 3

RangeCalls ==
    [name : {"range"},
     args : {<<Small(a)>> : a \in (0 - MaxRange)..MaxRange}
                \cup {<<Small(a), Small(b)>> : a, b \in (0 - MaxRange)..MaxRange}]

\* what len is called with: strings with scalars of one and of several
\* bytes, lists and maps
LenArguments ==
    {Str(<<>>), Str(<<CharOf(128013)>>), Str(<<"a", CharOf(128013), "b">>),
     List(<<>>), List(<<Null, Str(<<"a", "b">>)>>), Map(<<>>),
     Map(<< <<<<"a">>, Small(1)>>, <<<<"b", "b">>, List(<<Null, Null, Null>>)>> >>)}

LenCalls == [name : {"len"}, args : {<<x>> : x \in LenArguments}]

BuiltinInit ==
    /\ bcall \in [name : BUILTINS, args : BSeq(ArgValues, MaxArgs)]
                    \cup MapCalls \cup OrdChrCalls \cup RangeCalls \cup LenCalls
    /\ bret = [status |-> "idle"]
    /\ LexIdle
    /\ ParseIdle

CallBuiltin ==
    /\ bcall.name \in BUILTINS
    /\ bret.status = "idle"
    /\ bret' = call_builtin(bcall.name, bcall.args)
    /\ UNCHANGED <<bcall, lexvars, pvars>>

BuiltinNext == CallBuiltin

SpecBuiltin == BuiltinInit /\ [][BuiltinNext]_vars

\* the arities a built-in accepts
MinArity(name) == IF name \in {"map", "filter"} THEN 2 ELSE 1

MaxArity(name) == IF name \in {"map", "filter", "range", "exp", "log"} THEN 2 ELSE 1

\* C10: a built-in called with a number of arguments outside its arity returns
\* an argument-count error carrying the accepted minimum, the accepted maximum
\* and the actual count, for every count including zero, and never a value
\* or a crash.
C10_ArityErrors ==
    (/\ bret.status # "idle"
     /\ (Len(bcall.args) < MinArity(bcall.name) \/ Len(bcall.args) > MaxArity(bcall.name))) =>
        /\ bret.status = "err"
        /\ bret.err = [kind |-> "ArgCount", min |-> MinArity(bcall.name),
                       max |-> MaxArity(bcall.name), actual |-> Len(bcall.args)]

\* what remains of C10 for the calls that pass at least one argument to map
\* and filter
C10_ExceptMapFilterOfNothing ==
    (/\ bret.status # "idle"
     /\ ~(bcall.name \in {"map", "filter"} /\ bcall.args = <<>>)
     /\ (Len(bcall.args) < MinArity(bcall.name) \/ Len(bcall.args) > MaxArity(bcall.name))) =>
        /\ bret.status = "err"
        /\ bret.err = [kind |-> "ArgCount", min |-> MinArity(bcall.name),
                       max |-> MaxArity(bcall.name), actual |-> Len(bcall.args)]

\* the call made took a number of arguments inside the arity of the built-in
InArity ==
    /\ bret.status # "idle"
    /\ bcall.name \in BUILTINS
    /\ MinArity(bcall.name) <= Len(bcall.args)
    /\ Len(bcall.args) <= MaxArity(bcall.name)

\* the variants a built-in takes at each of its positions
Accepts(name) ==
    CASE name = "len" -> {"String", "List", "Map"}
      [] name \in {"int", "float"} -> {"Integer", "Float", "Boolean", "String"}
      [] name = "items" -> {"Map"}
      [] name = "ord" -> {"String"}
      [] name = "chr" -> {"Integer"}
      [] name = "range" -> {"Integer"}
      [] name \in {"exp", "log"} -> {"Integer", "Float"}

\* the built-ins that check the variants of their arguments themselves
Typed == {"len", "int", "float", "items", "ord", "chr", "range", "exp", "log"}

\* the positions (from zero) of the arguments of the wrong variant
Offending ==
    {k \in 0..(Len(bcall.args) - 1) : bcall.args[k + 1].t \notin Accepts(bcall.name)}

\* the call failed with a type mismatch that names an offending argument
NamesAnOffender ==
    /\ bret.status = "err"
    /\ bret.err.kind = "ExpectedArg"
    /\ bret.err.index \in Offending
    /\ bret.err.expected = Accepts(bcall.name)
    /\ bret.err.actual = bcall.args[bret.err.index + 1].t

\* C11: a built-in called with an in-arity number of arguments of which at
\* least one has the wrong variant fails with a type mismatch (never an
\* argument-count error) that carries the zero-based position of an offending
\* argument, the expected variants and the actual variant.
C11_TypeMismatch ==
    (InArity /\ bcall.name \in Typed /\ Offending # {}) => NamesAnOffender

\* what remains of C11 apart from ord and chr, which report position 1, and
\* range of two non-integers, which reports an argument count
C11_ExceptOrdChrAndRange ==
    (/\ InArity
     /\ bcall.name \in Typed \ {"ord", "chr"}
     /\ Offending # {}
     /\ ~(bcall.name = "range" /\ Offending = {0, 1})) => NamesAnOffender

\* a Float is outside the range of i64 once rounded
OutOfI64(x) ==
    \/ x.sp \in {"nan", "inf", "-inf"}
    \/ x.sp = "finite" /\ ~FitsI64(Round(x.m, x.e))

\* C12: int applied to a Float whose rounded value does not fit the 64-bit
\* signed range returns a conversion error instead of an Integer value.
C12_IntOfHugeFloatFails ==
    (/\ InArity
     /\ bcall.name = "int"
     /\ bcall.args[1].t = "Float"
     /\ OutOfI64(bcall.args[1])) =>
        bret.status = "err" /\ bret.err.kind = "Convert"

\* what the code does instead: the cast saturates at the ends of the range
C12_IntOfHugeFloatSaturates ==
    (/\ InArity
     /\ bcall.name = "int"
     /\ bcall.args[1].t = "Float"
     /\ bcall.args[1].sp = "finite"
     /\ ~FitsI64(Round(bcall.args[1].m, bcall.args[1].e))) =>
        bret \in {BOk(Small(I64_MAX)), BOk(Small(I64_MIN))}

\* map or filter was called with a callee and a list
OverList ==
    /\ bret.status # "idle"
    /\ bcall.name \in {"map", "filter"}
    /\ Len(bcall.args) = 2
    /\ bcall.args[2].t = "List"

\* what the callee f makes of each element of xs
Results(f, xs) == [k \in 1..Len(xs) |-> call(f, <<xs[k]>>)]

\* the position of the first failure among the results rs
FirstFailure(rs) ==
    CHOOSE k \in 1..Len(rs) :
        rs[k].status # "ok" /\ \A j \in 1..(k - 1) : rs[j].status = "ok"

RECURSIVE Keep(_, _)
\* the elements of xs whose result in rs is truthy
Keep(xs, rs) ==
    IF xs = <<>> THEN <<>>
    ELSE (IF truthy(Head(rs).val) THEN <<Head(xs)>> ELSE <<>>) \o Keep(Tail(xs), Tail(rs))

\* C13: map(f, xs) returns the list of the f(xs[k]) in the order of xs and
\* filter(f, xs) the elements of xs on which f is truthy, in their order; the
\* first call of f that fails makes the built-in fail with that error,
\* whatever the later elements are.
C13_MapAndFilter ==
    (OverList /\ bcall.args[1].t = "Function") =>
        LET xs == bcall.args[2].items
            rs == Results(bcall.args[1], xs)
        IN  IF \A k \in 1..Len(xs) : rs[k].status = "ok"
            THEN bret = BOk(List(IF bcall.name = "map"
                                 THEN [k \in 1..Len(xs) |-> rs[k].val]
                                 ELSE Keep(xs, rs)))
            ELSE bret = rs[FirstFailure(rs)]

\* map(len, ["a", 2, null]): the second element fails, and the third, which
\* would fail otherwise, is not reported
C13_Witness ==
    /\ OverList
    /\ bcall.name = "map"
    /\ bcall.args = <<BuiltinFunc("len"), List(<<Str(<<"a">>), Small(2), Null>>)>>
    /\ bret.status = "err"
    /\ bret.err.actual = "Integer"

\* C14: map(f, xs) and filter(f, xs) fail with a type error whenever f is not
\* a function, for every list xs including the empty list.
C14_CalleeIsChecked ==
    (OverList /\ bcall.args[1].t # "Function") =>
        bret.status = "err" /\ bret.err.kind \in {"Call", "ExpectedArg"}

\* what remains of C14 when the list has an element
C14_ExceptEmptyList ==
    (OverList /\ bcall.args[1].t # "Function" /\ bcall.args[2].items # <<>>) =>
        bret.status = "err" /\ bret.err.kind \in {"Call", "ExpectedArg"}

\* a conversion built-in was called with one argument and returned a value
Converted(name) ==
    /\ bret.status = "ok"
    /\ bcall.name = name
    /\ Len(bcall.args) = 1

\* C15: str(str(x)) = str(x) and bool(bool(x)) = bool(x) for every value x,
\* and int(int(n)) = int(n) for every n on which int succeeds.
C15_ConversionsAreIdempotent ==
    /\ \A name \in {"str", "bool"} :
          (bret.status # "idle" /\ bcall.name = name /\ Len(bcall.args) = 1) =>
              Converted(name)
    /\ \A name \in {"str", "bool", "int"} :
          Converted(name) => call_builtin(name, <<bret.val>>) = bret

\* str(2) is the string "2", and str of that is the same string
C15_Witness ==
    /\ Converted("str")
    /\ bcall.args = <<Small(2)>>
    /\ bret.val = Str(<<"2">>)

\* the Unicode scalar values
IsScalar(n) == 0 <= n /\ n <= 1114111 /\ ~(55296 <= n /\ n <= 57343)

\* C16: ord(chr(n)) = n for every scalar value n and chr(ord(s)) = s for
\* every string s of one scalar; chr fails for every other Integer and ord
\* for every string whose length in scalars is not 1.
C16_OrdAndChrAreInverse ==
    /\ (bret.status # "idle" /\ bcall.name = "chr" /\ Len(bcall.args) = 1
            /\ bcall.args[1].t = "Integer") =>
          IF IsScalar(bcall.args[1].n)
          THEN /\ bret.status = "ok"
               /\ bret.val.t = "String"
               /\ Len(bret.val.s) = 1
               /\ ord(<<bret.val>>) = BOk(Small(bcall.args[1].n))
          ELSE bret.status = "err"
    /\ (bret.status # "idle" /\ bcall.name = "ord" /\ Len(bcall.args) = 1
            /\ bcall.args[1].t = "String") =>
          IF Len(bcall.args[1].s) = 1
          THEN /\ bret.status = "ok"
               /\ bret.val.t = "Integer"
               /\ chr(<<bret.val>>) = BOk(bcall.args[1])
          ELSE bret.status = "err"

\* chr(128013) is a string of one scalar, and ord of it is 128013
C16_Witness ==
    /\ bcall.name = "chr"
    /\ bcall.args = <<Small(128013)>>
    /\ bret.status = "ok"
    /\ ord(<<bret.val>>) = BOk(Small(128013))

\* C17: range(n) is the list 0, 1, ..., n - 1 and range(a, b) the list
\* a, a + 1, ..., b - 1, ascending with the upper bound excluded; it is empty
\* when n <= 0 or a >= b, so its length is max(0, b - a).
C17_Range ==
    (/\ bret.status # "idle"
     /\ bcall.name = "range"
     /\ Len(bcall.args) \in {1, 2}
     /\ \A k \in 1..Len(bcall.args) : bcall.args[k].t = "Integer") =>
        LET a == IF Len(bcall.args) = 2 THEN bcall.args[1].n ELSE 0
            b == bcall.args[Len(bcall.args)].n
        IN  /\ bret.status = "ok"
            /\ bret.val.t = "List"
            /\ Len(bret.val.items) = IF b - a > 0 THEN b - a ELSE 0
            /\ \A k \in 1..Len(bret.val.items) :
                  /\ bret.val.items[k].t = "Integer"
                  /\ bret.val.items[k].n = a + k - 1

\* range(-2, 1) returned three Integers
C17_Witness ==
    /\ bcall.name = "range"
    /\ bcall.args = <<Small(-2), Small(1)>>
    /\ bret.status = "ok"
    /\ Len(bret.val.items) = 3

\* C18: len returns, as a non-negative Integer, the number of scalar values
\* of a string (not its length in bytes), the number of elements of a list
\* and the number of entries of a map.
C18_Len ==
    (/\ bret.status # "idle"
     /\ bcall.name = "len"
     /\ Len(bcall.args) = 1
     /\ bcall.args[1].t \in {"String", "List", "Map"}) =>
        /\ bret.status = "ok"
        /\ bret.val.t = "Integer"
        /\ bret.val.n >= 0
        /\ bret.val.n = CASE bcall.args[1].t = "String" -> Len(bcall.args[1].s)
                           [] bcall.args[1].t = "List" -> Len(bcall.args[1].items)
                           [] bcall.args[1].t = "Map" -> Len(bcall.args[1].entries)

\* len of a string of three scalars that takes six bytes
C18_Witness ==
    /\ bcall.name = "len"
    /\ bcall.args = <<Str(<<"a", CharOf(128013), "b">>)>>
    /\ str_len(bcall.args[1].s) = 6
    /\ bret = BOk(Small(3))

(***************************************************************************)
(* Comparing two functions: the evaluator hands Func::user_eq the two       *)
(* operands of an equality.                                                *)
(***************************************************************************)
\* the functions of the model: every built-in, closures and native closures
Funcs ==
    {BuiltinFunc(name) : name \in BUILTINS}
        \cup {Closure(id) : id \in 1..3} \cup {NativeClosure(id) : id \in 1..2}

FuncInit ==
    /\ bcall \in [name : {"user_eq"}, args : {<<f, g>> : f, g \in Funcs}]
    /\ bret = [status |-> "idle"]
    /\ LexIdle
    /\ ParseIdle

UserEq ==
    /\ bcall.name = "user_eq"
    /\ bret.status = "idle"
    /\ bret' = [status |-> "returned", val |-> user_eq(bcall.args[1], bcall.args[2])]
    /\ UNCHANGED <<bcall, lexvars, pvars>>

FuncNext == UserEq

SpecFunc == FuncInit /\ [][FuncNext]_vars

\* C19: user_eq holds exactly when both operands are built-ins of the same
\* name; a comparison with a closure or a native closure on either side is
\* false, a closure against itself included, and the relation is symmetric.
C19_FunctionEquality ==
    bret.status = "returned" =>
        LET this == bcall.args[1]
            that == bcall.args[2]
        IN  /\ bret.val = (/\ this.f = "Builtin"
                           /\ that.f = "Builtin"
                           /\ this.name = that.name)
            /\ (this.f # "Builtin" \/ that.f # "Builtin") => bret.val = FALSE
            /\ user_eq(that, this) = bret.val

\* a closure was compared with itself
C19_Witness ==
    /\ bret.status = "returned"
    /\ bcall.args = <<Closure(1), Closure(1)>>
    /\ bret.val = FALSE

(***************************************************************************)
(* The syntax tree (Expr and its parts).  Source spans are left out: no    *)
(* property below reads them.                                              *)
(***************************************************************************)
None == [some |-> FALSE]

Some(x) == [some |-> TRUE, x |-> x]

Literal(v) == [e |-> "Literal", v |-> v]

Identifier(key) == [e |-> "Identifier", key |-> key]

ExprString(parts) == [e |-> "String", parts |-> parts]

ExprList(elements) == [e |-> "List", elements |-> elements]

ExprMap(elements) == [e |-> "Map", elements |-> elements]

Operator(operand, operator) == [e |-> "Operator", operand |-> operand, operator |-> operator]

UnOp(op) == [o |-> "UnOp", op |-> op]

BinOp(op, rhs) == [o |-> "BinOp", op |-> op, rhs |-> rhs]

FunCall(args) == [o |-> "FunCall", args |-> args]

Function(positional, keywords, expression_) ==
    [e |-> "Function", positional |-> positional, keywords |-> keywords,
     expression |-> expression_]

Let(bindings, expression_) == [e |-> "Let", bindings |-> bindings, expression |-> expression_]

Branch(condition, true_branch, false_branch) ==
    [e |-> "Branch", condition |-> condition, true_branch |-> true_branch,
     false_branch |-> false_branch]

\* StringElement
Raw(s) == [p |-> "Raw", s |-> s]

Interpolate(x) == [p |-> "Interpolate", expr |-> x]

\* ListElement, MapElement and ArgElement
Singleton(x) == [l |-> "Singleton", expr |-> x]

Splat(x) == [l |-> "Splat", expr |-> x]

Loop(b, iterable, element_) ==
    [l |-> "Loop", binding |-> b, iterable |-> iterable, element |-> element_]

Cond(condition, element_) == [l |-> "Cond", condition |-> condition, element |-> element_]

MapSingleton(key, val) == [l |-> "MapSingleton", key |-> key, value |-> val]

Keyword(name, x) == [l |-> "Keyword", name |-> name, expr |-> x]

\* Binding and the elements of list and map bindings
BindIdentifier(key) == [b |-> "Identifier", key |-> key]

BindList(elements) == [b |-> "List", elements |-> elements]

BindMap(elements) == [b |-> "Map", elements |-> elements]

Slurp == [s |-> "Slurp"]

SlurpTo(key) == [s |-> "SlurpTo", key |-> key]

ListBindingElement(b, default) == [s |-> "Binding", binding |-> b, default |-> default]

MapBindingElement(key, b, default) ==
    [s |-> "Binding", key |-> key, binding |-> b, default |-> default]

\* Expr::string: a literal when there is no interpolation
Expr_string(parts) ==
    IF parts = <<>> THEN Literal(Str(<<>>))
    ELSE IF Len(parts) = 1 /\ parts[1].p = "Raw" THEN Literal(Str(parts[1].s))
    ELSE ExprString(parts)

(***************************************************************************)
(* The parser of parsing.rs: nom combinators over the remaining text.  A   *)
(* parser applied to a text gives IOk(rest, output) or IErr; every error   *)
(* is recoverable (nothing in parsing.rs cuts).                            *)
(***************************************************************************)
IOk(rest, o) == [ok |-> TRUE, rest |-> rest, out |-> o]

IErr == [ok |-> FALSE]

\* the characters of multispace0
Multispace == {" ", "\t", "\n", "\r"}

multispace0(s) == Drop(s, RunIn(s, 0, Multispace))

\* postpad(parser): the parser, then multispace0
postpad(r) == IF r.ok THEN IOk(multispace0(r.rest), r.out) ELSE r

tag(t, s) ==
    IF Len(s) >= Len(t) /\ Take(s, Len(t)) = t THEN IOk(Drop(s, Len(t)), t) ELSE IErr

char(c, s) == IF s # <<>> /\ Head(s) = c THEN IOk(Tail(s), c) ELSE IErr

is_not(stops, s) ==
    LET n == RunNotIn(s, 0, stops)
    IN  IF n = 0 THEN IErr ELSE IOk(Drop(s, n), Take(s, n))

alpha1(s) ==
    LET n == RunIn(s, 0, Lower \cup Upper)
    IN  IF n = 0 THEN IErr ELSE IOk(Drop(s, n), Take(s, n))

\* alt((a, b)): the first that succeeds
alt(a, b) == IF a.ok THEN a ELSE b

\* alt of three, four and five parsers
alt3(a, b, c) ==
    CASE a.ok -> a
      [] ~a.ok /\ b.ok -> b
      [] ~a.ok /\ ~b.ok -> c

alt4(a, b, c, d) ==
    CASE a.ok -> a
      [] ~a.ok /\ b.ok -> b
      [] ~a.ok /\ ~b.ok /\ c.ok -> c
      [] ~a.ok /\ ~b.ok /\ ~c.ok -> d

alt5(a, b, c, d, e) ==
    CASE a.ok -> a
      [] ~a.ok /\ b.ok -> b
      [] ~a.ok /\ ~b.ok /\ c.ok -> c
      [] ~a.ok /\ ~b.ok /\ ~c.ok /\ d.ok -> d
      [] ~a.ok /\ ~b.ok /\ ~c.ok /\ ~d.ok -> e

\* value(v, parser) and map(parser, f) with the output already computed
value(v, r) == IF r.ok THEN IOk(r.rest, v) ELSE r

\* opt(parser) applied at s
opt(r, s) == IF r.ok THEN IOk(r.rest, Some(r.out)) ELSE IOk(s, None)

\* terminated(parser, char(c)) after the result r of the parser
terminated_char(r, c) ==
    IF r.ok
    THEN LET closed(q) == IF q.ok THEN IOk(q.rest, r.out) ELSE IErr
         IN  closed(char(c, r.rest))
    ELSE IErr

\* the node that the function called f makes of the output o of a parser
construct(f, o) ==
    CASE f = "Raw" -> Raw(o)
      [] f = "Interpolate" -> Interpolate(o)
      [] f = "Expr_string" -> Expr_string(o)
      [] f = "Identifier" -> Identifier(o)
      [] f = "Singleton" -> Singleton(o)
      [] f = "Splat" -> Splat(o)
      [] f = "ExprList" -> ExprList(o)
      [] f = "ExprMap" -> ExprMap(o)
      [] f = "FunCall" -> FunCall(o)
      [] f = "access" -> BinOp("index", Literal(Str(o)))
      [] f = "index" -> BinOp("index", o)
      [] f = "BindIdentifier" -> BindIdentifier(o)
      [] f = "BindList" -> BindList(o)
      [] f = "BindMap" -> BindMap(o)

\* map(parser, f) after the result r of the parser
map_result(f, r) == IF r.ok THEN IOk(r.rest, construct(f, r.out)) ELSE IErr

\* the characters that end a keyword or an identifier
WordStop == {"=", ",", ";", ".", ":", "-", "+", "/", "*", "[", "]", "(", ")",
             "{", "}", "\"", "'", " ", "\t", "\n", "\r"}

\* the characters that end a map key
MapKeyStop == {",", "=", ":", "$", "}", "(", ")", "\"", "'", " ", "\t", "\n", "\r"}

keyword(val, s) ==
    LET r == is_not(WordStop, s)
    IN  IF r.ok /\ r.out = val THEN r ELSE IErr

\* an identifier that keywords are not excluded from
identifier_accepting_keywords(s) ==
    LET h == alt(alpha1(s), tag(<<"_">>, s))
    IN  IF ~h.ok THEN IErr
        ELSE LET t    == is_not(WordStop, h.rest)
                 rest == IF t.ok THEN t.rest ELSE h.rest
             IN  IOk(rest, Take(s, Len(s) - Len(rest)))

identifier(s) ==
    LET h == alt(alpha1(s), tag(<<"_">>, s))
    IN  IF ~h.ok THEN IErr
        ELSE LET t    == is_not(WordStop, h.rest)
                 rest == IF t.ok THEN t.rest ELSE h.rest
                 o    == Take(s, Len(s) - Len(rest))
             IN  IF o \in KEYWORDS THEN IErr ELSE IOk(rest, o)

map_identifier(s) == is_not(MapKeyStop, s)

decimal(s) ==
    IF s # <<>> /\ Head(s) \in Digits
    THEN LET n == 1 + RunIn(s, 1, Digits \cup {"_"})
         IN  IOk(Drop(s, n), Take(s, n))
    ELSE IErr

exponent(s) ==
    IF s # <<>> /\ Head(s) \in {"e", "E"}
    THEN LET sg == IF At(s, 1) \in {"+", "-"} THEN 1 ELSE 0
             d  == decimal(Drop(s, 1 + sg))
         IN  IF d.ok THEN IOk(d.rest, Take(s, Len(s) - Len(d.rest))) ELSE IErr
    ELSE IErr

\* str::replace("_", "")
RemoveUnderscores(s) == SelectSeq(s, LAMBDA c : c # "_")

\* an integer literal read as a BigInt whatever its size
integer_always_big(s) ==
    LET d == decimal(s)
    IN  IF ~d.ok THEN IErr
        ELSE IOk(d.rest, Literal(Big(DigitsValue(RemoveUnderscores(d.out), 0))))

\* i64::from_str_radix succeeds up to i64::MAX; BigInt::from_str takes the rest
integer(s) ==
    LET d == decimal(s)
    IN  IF ~d.ok THEN IErr
        ELSE LET n == DigitsValue(RemoveUnderscores(d.out), 0)
             IN  IOk(d.rest, Literal(IF n <= I64_MAX THEN Small(n) ELSE Big(n)))

\* the text of a float literal: one of the three forms of `float`
float_text(s) ==
    LET d == decimal(s)
        a == IF d.ok /\ At(d.rest, 0) = "."
             THEN LET f == opt(decimal(Tail(d.rest)), Tail(d.rest))
                      x == opt(exponent(f.rest), f.rest)
                  IN  IOk(x.rest, Take(s, Len(s) - Len(x.rest)))
             ELSE IErr
        b == IF At(s, 0) = "."
             THEN LET f == decimal(Tail(s))
                  IN  IF ~f.ok THEN IErr
                      ELSE LET x == opt(exponent(f.rest), f.rest)
                           IN  IOk(x.rest, Take(s, Len(s) - Len(x.rest)))
             ELSE IErr
        c == IF d.ok
             THEN LET x == exponent(d.rest)
                  IN  IF x.ok THEN IOk(x.rest, Take(s, Len(s) - Len(x.rest))) ELSE IErr
             ELSE IErr
    IN  alt(a, alt(b, c))

\* parsing.rs `float`
float_literal(s) ==
    LET r == float_text(s)
    IN  IF ~r.ok THEN IErr
        ELSE LET p == F64FromStr(RemoveUnderscores(r.out))
             IN  IF p.ok THEN IOk(r.rest, Literal(p.val)) ELSE IErr

RECURSIVE escaped_transform_keeping_backslash(_, _, _)
\* an escaped_transform that copies an escape as written
escaped_transform_keeping_backslash(input, index, acc) ==
    IF index >= Len(input) THEN IOk(Drop(input, index), acc)
    ELSE LET n == RunNotIn(input, index, {"\"", "\\", "$"})
         IN  IF n > 0
             THEN escaped_transform_keeping_backslash(input, index + n,
                        acc \o SubSeq(input, index + 1, index + n))
             ELSE IF input[index + 1] = "\\"
             THEN IF index + 1 >= Len(input) THEN IErr
                  ELSE IF input[index + 2] \in {"\"", "\\"}
                  THEN escaped_transform_keeping_backslash(input, index + 2,
                            acc \o <<"\\", input[index + 2]>>)
                  ELSE IErr
             ELSE IF index = 0 THEN IErr ELSE IOk(Drop(input, index), acc)

RECURSIVE escaped_transform(_, _, _)
\* escaped_transform(many1(none_of("\"\\$")), '\\', alt(("\"", "\\"))) from
\* `index` on, with `acc` the text transformed so far
escaped_transform(input, index, acc) ==
    IF index >= Len(input) THEN IOk(Drop(input, index), acc)
    ELSE LET n == RunNotIn(input, index, {"\"", "\\", "$"})
         IN  IF n > 0
             THEN escaped_transform(input, index + n,
                        acc \o SubSeq(input, index + 1, index + n))
             ELSE IF input[index + 1] = "\\"
             THEN IF index + 1 >= Len(input) THEN IErr
                  ELSE IF input[index + 2] \in {"\"", "\\"}
                  THEN escaped_transform(input, index + 2, acc \o <<input[index + 2]>>)
                  ELSE IErr
             ELSE IF index = 0 THEN IErr ELSE IOk(Drop(input, index), acc)

raw_string(s) == escaped_transform(s, 0, <<>>)

(***************************************************************************)
(* The grammar.  A combinator of nom takes the parsers it combines as      *)
(* values; here a parser that is handed on, or that the grammar comes back *)
(* to from inside itself, is called by its name through `apply`.  What a   *)
(* parser does with the result of the one before it is written as a local  *)
(* operator of that result.                                                *)
(***************************************************************************)
RECURSIVE apply(_, _)

comma(s) == postpad(char(",", s))

\* preceded(postpad(t), parser) for the parser called `parser`, after t
preceded(a, parser) == IF a.ok THEN apply(parser, a.rest) ELSE IErr

RECURSIVE separated_loop(_, _, _)
\* separated_list0 after its first element: a separator followed by no
\* element is left unconsumed
separated_loop(element, i, acc) ==
    LET after_separator(sp) ==
            IF ~sp.ok THEN IOk(i, acc)
            ELSE LET after_element(e) ==
                         IF e.ok
                         THEN separated_loop(element, e.rest, Append(acc, e.out))
                         ELSE IOk(i, acc)
                 IN  after_element(apply(element, sp.rest))
    IN  after_separator(comma(i))

\* separated_list0(postpad(char(',')), element)
separated_list0(element, s) ==
    LET after_first(e) ==
            IF e.ok THEN separated_loop(element, e.rest, <<e.out>>) ELSE IOk(s, <<>>)
    IN  after_first(apply(element, s))

\* opt(postpad(char(','))) after a separated list
trailing_comma(r) == IF r.ok THEN IOk(opt(comma(r.rest), r.rest).rest, r.out) ELSE r

string_data(s) == map_result("Raw", raw_string(s))

string_interp(s) ==
    map_result("Interpolate",
               terminated_char(preceded(postpad(tag(<<"$", "{">>, s)), "expression"),
                               "}"))

RECURSIVE string_parts(_, _)
\* many0(alt((string_interp, string_data))): a part that consumes nothing is
\* an error
string_parts(s, acc) ==
    LET more(r) ==
            IF ~r.ok THEN IOk(s, acc)
            ELSE IF Len(r.rest) = Len(s) THEN IErr
            ELSE string_parts(r.rest, Append(acc, r.out))
    IN  more(alt(string_interp(s), string_data(s)))

\* the parts of a string and its closing quote, after the opening one
string_body(a) == IF a.ok THEN terminated_char(string_parts(a.rest, <<>>), "\"") ELSE IErr

\* a string that is a String node also without interpolation
string_always_node(s) ==
    LET node(r) == IF r.ok THEN IOk(r.rest, ExprString(r.out)) ELSE IErr
    IN  node(string_body(char("\"", s)))

string(s) == map_result("Expr_string", string_body(char("\"", s)))

boolean(s) ==
    alt(value(Literal(Boolean(TRUE)), keyword(<<"t", "r", "u", "e">>, s)),
        value(Literal(Boolean(FALSE)), keyword(<<"f", "a", "l", "s", "e">>, s)))

null(s) == value(Literal(Null), keyword(<<"n", "u", "l", "l">>, s))

atomic(s) == alt5(null(s), boolean(s), float_literal(s), integer(s), string(s))

\* `for binding in expression :`, the head of a comprehension element
loop_head(s) ==
    LET after_binding(b) ==
            IF ~b.ok THEN IErr
            ELSE LET after_iterable(i) ==
                         IF i.ok
                         THEN IOk(i.rest, [binding |-> b.out, iterable |-> i.out])
                         ELSE IErr
                 IN  after_iterable(postpad(terminated_char(
                         preceded(postpad(tag(<<"i", "n">>, b.rest)), "expression"),
                         ":")))
    IN  after_binding(preceded(postpad(tag(<<"f", "o", "r">>, s)), "binding"))

\* `if expression :`, the head of a conditional element
cond_head(s) ==
    postpad(terminated_char(preceded(postpad(tag(<<"i", "f">>, s)), "expression"), ":"))

splat(s) ==
    map_result("Splat", preceded(postpad(tag(<<".", ".", ".">>, s)), "expression"))

\* a comprehension element: a loop head, then an element of the same kind
loop_element(element, s) ==
    LET after_head(h) ==
            IF ~h.ok THEN IErr
            ELSE LET after_element(x) ==
                         IF x.ok
                         THEN IOk(x.rest, Loop(h.out.binding, h.out.iterable, x.out))
                         ELSE IErr
                 IN  after_element(apply(element, h.rest))
    IN  after_head(loop_head(s))

\* a conditional element: a condition head, then an element of the same kind
cond_element(element, s) ==
    LET after_head(h) ==
            IF ~h.ok THEN IErr
            ELSE LET after_element(x) ==
                         IF x.ok THEN IOk(x.rest, Cond(h.out, x.out)) ELSE IErr
                 IN  after_element(apply(element, h.rest))
    IN  after_head(cond_head(s))

\* map(expression, Singleton)
singleton(s) == map_result("Singleton", apply("expression", s))

list_element(s) ==
    alt4(splat(s), loop_element("list_element", s), cond_element("list_element", s),
         singleton(s))

\* the elements of a list or a map with their optional trailing comma, after
\* the opening bracket
elements(open, element) ==
    IF open.ok THEN trailing_comma(separated_list0(element, open.rest)) ELSE IErr

\* a list that takes no comma after its last element
list_without_trailing_comma(s) ==
    LET body(open) ==
            IF open.ok THEN separated_list0("list_element", open.rest) ELSE IErr
    IN  map_result("ExprList", terminated_char(body(postpad(char("[", s))), "]"))

list(s) ==
    map_result("ExprList",
               terminated_char(elements(postpad(char("[", s)), "list_element"), "]"))

\* the value of a map element, after its key k and the colon
keyed(k, literal) ==
    IF ~k.ok THEN IErr
    ELSE LET after_value(v) ==
                 IF v.ok
                 THEN IOk(v.rest,
                          MapSingleton(IF literal THEN Literal(Str(k.out)) ELSE k.out,
                                       v.out))
                 ELSE IErr
         IN  after_value(apply("expression", k.rest))

map_element(s) ==
    alt5(splat(s), loop_element("map_element", s), cond_element("map_element", s),
         keyed(postpad(terminated_char(
                   preceded(postpad(char("$", s)), "expression"), ":")), FALSE),
         keyed(postpad(terminated_char(postpad(map_identifier(s)), ":")), TRUE))

mapping(s) ==
    map_result("ExprMap",
               terminated_char(elements(postpad(char("{", s)), "map_element"), "}"))

postfixable(s) ==
    postpad(alt5(postpad(terminated_char(preceded(postpad(char("(", s)), "expression"),
                                         ")")),
                 atomic(s),
                 map_result("Identifier", identifier(s)),
                 list(s),
                 mapping(s)))

\* the identifier of an object access, after the dot
accessed(a) == IF a.ok THEN identifier(a.rest) ELSE IErr

object_access(s) == map_result("access", accessed(postpad(char(".", s))))

object_index(s) ==
    map_result("index",
               terminated_char(preceded(postpad(char("[", s)), "expression"), "]"))

\* a keyword argument `name: expression`, after its name n
keyword_arg(n) ==
    IF ~n.ok THEN IErr
    ELSE LET after_value(x) ==
                 IF x.ok THEN IOk(x.rest, Keyword(n.out, x.out)) ELSE IErr
         IN  after_value(preceded(postpad(char(":", n.rest)), "expression"))

function_arg(s) == alt3(splat(s), keyword_arg(postpad(identifier(s))), singleton(s))

\* the arguments of a call, after the opening parenthesis
arguments(open) == IF open.ok THEN separated_list0("function_arg", open.rest) ELSE IErr

function_call(s) ==
    map_result("FunCall",
               postpad(terminated_char(arguments(postpad(char("(", s))), ")")))

RECURSIVE postfix_many0(_, _)
\* many0(postpad(alt((object_access, object_index, function_call))))
postfix_many0(s, acc) ==
    LET more(r) ==
            IF ~r.ok THEN IOk(s, acc)
            ELSE IF Len(r.rest) = Len(s) THEN IErr
            ELSE postfix_many0(r.rest, Append(acc, r.out))
    IN  more(postpad(alt3(object_access(s), object_index(s), function_call(s))))

RECURSIVE fold(_, _)
\* ops.into_iter().fold(expr, |expr, operator| Expr::Operator { .. })
fold(expr, ops) ==
    IF ops = <<>> THEN expr ELSE fold(Operator(expr, Head(ops)), Tail(ops))

\* Iterator::rev
rev(ops) == [k \in 1..Len(ops) |-> ops[Len(ops) + 1 - k]]

\* an operand x wrapped in the operators ops that were read after it
folded(x, ops) == IF ops.ok THEN IOk(ops.rest, fold(x.out, ops.out)) ELSE IErr

\* postfixed after its operand x
postfix_operators(x) == IF x.ok THEN folded(x, postfix_many0(x.rest, <<>>)) ELSE IErr

\* a postfixed that applies the operators from right to left
postfixed_rightmost_innermost(s) ==
    LET reversed(x, ops) ==
            IF ops.ok THEN IOk(ops.rest, fold(x.out, rev(ops.out))) ELSE IErr
        operand(x) == IF x.ok THEN reversed(x, postfix_many0(x.rest, <<>>)) ELSE IErr
    IN  operand(postfixable(s))

postfixed(s) == postfix_operators(postfixable(s))

prefix_operator(s) ==
    alt3(value(UnOp("Passthrough"), postpad(tag(<<"+">>, s))),
         value(UnOp("ArithmeticalNegate"), postpad(tag(<<"-">>, s))),
         value(UnOp("LogicalNegate"), postpad(keyword(<<"n", "o", "t">>, s))))

RECURSIVE prefix_many0(_, _)
\* many0 of the prefix operators
prefix_many0(s, acc) ==
    LET more(r) ==
            IF ~r.ok THEN IOk(s, acc)
            ELSE IF Len(r.rest) = Len(s) THEN IErr
            ELSE prefix_many0(r.rest, Append(acc, r.out))
    IN  more(prefix_operator(s))

power_operators(s) == value("power", tag(<<"^">>, s))

product_operators(s) ==
    alt3(value("multiply", tag(<<"*">>, s)),
         value("integer_divide", tag(<<"/", "/">>, s)),
         value("divide", tag(<<"/">>, s)))

sum_operators(s) ==
    alt(value("add", tag(<<"+">>, s)), value("subtract", tag(<<"-">>, s)))

inequality_operators(s) ==
    alt4(value("less_equal", tag(<<"<", "=">>, s)),
         value("greater_equal", tag(<<">", "=">>, s)),
         value("less", tag(<<"<">>, s)),
         value("greater", tag(<<">">>, s)))

equality_operators(s) ==
    alt(value("equal", tag(<<"=", "=">>, s)), value("not_equal", tag(<<"!", "=">>, s)))

conjunction_operators(s) == value("and", tag(<<"a", "n", "d">>, s))

disjunction_operators(s) == value("or", tag(<<"o", "r">>, s))

\* the operators of a level of the ladder
operators(level, s) ==
    CASE level = "power" -> power_operators(s)
      [] level = "product" -> product_operators(s)
      [] level = "sum" -> sum_operators(s)
      [] level = "inequality" -> inequality_operators(s)
      [] level = "equality" -> equality_operators(s)
      [] level = "conjunction" -> conjunction_operators(s)
      [] level = "disjunction" -> disjunction_operators(s)

\* the parser of the operands of a level: the level below it
operands(level) ==
    CASE level \in {"power", "product"} -> "prefixed"
      [] level = "sum" -> "product"
      [] level = "inequality" -> "sum"
      [] level = "equality" -> "inequality"
      [] level = "conjunction" -> "equality"
      [] level = "disjunction" -> "conjunction"

\* binop(operators, operand): an operator, then its right operand
binop(level, s) ==
    LET after_operator(f) ==
            IF ~f.ok THEN IErr
            ELSE LET after_operand(x) ==
                         IF x.ok THEN IOk(x.rest, BinOp(f.out, x.out)) ELSE IErr
                 IN  after_operand(apply(operands(level), f.rest))
    IN  after_operator(postpad(operators(level, s)))

RECURSIVE binop_many0(_, _, _)
\* many0(binop(operators, operand))
binop_many0(level, s, acc) ==
    LET more(r) ==
            IF ~r.ok THEN IOk(s, acc)
            ELSE IF Len(r.rest) = Len(s) THEN IErr
            ELSE binop_many0(level, r.rest, Append(acc, r.out))
    IN  more(binop(level, s))

\* the operators ops in the order of the fold: as read, or reversed
ordered(ops, right) ==
    IF ops.ok THEN IOk(ops.rest, IF right THEN rev(ops.out) ELSE ops.out) ELSE IErr

\* binops that folds from the right whatever the flag says
binops_folding_right(level, first, right) ==
    IF first.ok
    THEN folded(first, ordered(binop_many0(level, first.rest, <<>>), TRUE))
    ELSE IErr

\* binops(operators, operand, right) from `first`, what `operand` made of the
\* input: many0(operators), folded over the first operand from the left, or
\* from the right if `right`
binops(level, first, right) ==
    IF first.ok
    THEN folded(first, ordered(binop_many0(level, first.rest, <<>>), right))
    ELSE IErr

power(s) == binops("power", postfixed(s), TRUE)

\* prefixed after its operators ops: the operand, wrapped innermost first
prefix_operand(ops, x) ==
    IF x.ok THEN IOk(x.rest, fold(x.out, rev(ops.out))) ELSE IErr

\* the operand of prefixed, after its operators
prefixed_operand(ops) == IF ops.ok THEN prefix_operand(ops, power(ops.rest)) ELSE IErr

prefixed(s) == prefixed_operand(prefix_many0(s, <<>>))

(***************************************************************************)
(* The levels of the ladder, lowest first.  lbinop(operators, operands) is *)
(* binops(binop(operators, operands), operands, false), and the operands   *)
(* of a level are the level below; so the first operand of every level is  *)
(* what `prefixed` makes of the input, and a level is the lbinops of the   *)
(* levels up to it applied in turn to that, innermost first.               *)
(***************************************************************************)
Ladder == <<"product", "sum", "inequality", "equality", "conjunction", "disjunction">>

RECURSIVE lbinops(_, _, _)
\* the lbinops of the levels k to top of the ladder, from `first`
lbinops(k, top, first) ==
    IF ~first.ok THEN IErr
    ELSE IF k > top THEN first
    ELSE lbinops(k + 1, top, binops(Ladder[k], first, FALSE))

\* lbinop(operators, operands) for the level `top` of the ladder
lbinop(top, s) == lbinops(1, top, apply("prefixed", s))

product(s) == lbinop(1, s)

sum(s) == lbinop(2, s)

inequality(s) == lbinop(3, s)

equality(s) == lbinop(4, s)

conjunction(s) == lbinop(5, s)

disjunction(s) == lbinop(6, s)

ident_binding(s) == map_result("BindIdentifier", postpad(identifier(s)))

\* opt(preceded(postpad(char('=')), expression)) at s
default_value(s) == opt(preceded(postpad(char("=", s)), "expression"), s)

\* `...` and the optional name after it: a slurp, named or (in a list) not
slurp(d, anonymous) ==
    IF ~d.ok THEN IErr
    ELSE LET after_name(n) ==
                 IF n.ok THEN IOk(n.rest, SlurpTo(n.out))
                 ELSE IF anonymous THEN IOk(d.rest, Slurp) ELSE IErr
         IN  after_name(identifier(d.rest))

\* a binding and its optional default
list_binding_default(b) ==
    IF ~b.ok THEN IErr
    ELSE LET after_default(d) == IOk(d.rest, ListBindingElement(b.out, d.out))
         IN  after_default(default_value(b.rest))

list_binding_element(s) ==
    alt(slurp(tag(<<".", ".", ".">>, s), TRUE), list_binding_default(apply("binding", s)))

list_binding(s) == trailing_comma(separated_list0("list_binding_element", s))

\* `name as binding`, after the name k
renamed(k) ==
    IF ~k.ok THEN IErr
    ELSE LET after_binding(b) ==
                 IF b.ok THEN IOk(b.rest, [name |-> k.out, binding |-> b.out]) ELSE IErr
         IN  after_binding(preceded(postpad(tag(<<"a", "s">>, k.rest)), "binding"))

\* a name that is its own binding
named(k) ==
    IF k.ok THEN IOk(k.rest, [name |-> k.out, binding |-> BindIdentifier(k.out)])
    ELSE IErr

\* a key, bound under another name or under its own
map_binding_key(k) == alt(renamed(k), named(k))

\* a key with its binding and its optional default
map_binding_default(nb) ==
    IF ~nb.ok THEN IErr
    ELSE LET after_default(d) ==
                 IOk(d.rest, MapBindingElement(nb.out.name, nb.out.binding, d.out))
         IN  after_default(default_value(nb.rest))

map_binding_element(s) ==
    alt(slurp(tag(<<".", ".", ".">>, s), FALSE),
        map_binding_default(map_binding_key(postpad(map_identifier(s)))))

map_binding(s) == trailing_comma(separated_list0("map_binding_element", s))

\* a list binding, after the opening bracket
list_binding_body(open) == IF open.ok THEN list_binding(open.rest) ELSE IErr

\* a map binding, after the opening brace
map_binding_body(open) == IF open.ok THEN map_binding(open.rest) ELSE IErr

binding(s) ==
    alt3(ident_binding(s),
         map_result("BindList",
                    postpad(terminated_char(list_binding_body(postpad(char("[", s))),
                                            "]"))),
         map_result("BindMap",
                    postpad(terminated_char(map_binding_body(postpad(char("{", s))),
                                            "}"))))

\* preceded(postpad(tag("=>")), expression)
arrow_body(s) == preceded(postpad(tag(<<"=", ">">>, s)), "expression")

\* opt(preceded(postpad(char(';')), map_binding)) after the positional
\* parameters p
keyword_parameters(p, semicolon) ==
    IF semicolon.ok THEN opt(map_binding(semicolon.rest), p.rest) ELSE IOk(p.rest, None)

\* the body of a function, after its parameters and the closing c
function_body(positional, keywords, c) ==
    IF ~c.ok THEN IErr
    ELSE LET after_body(x) ==
                 IF x.ok THEN IOk(x.rest, Function(positional, keywords, x.out))
                 ELSE IErr
         IN  after_body(arrow_body(c.rest))

function(s) ==
    LET after_positional(p) ==
            IF ~p.ok THEN IErr
            ELSE LET after_keywords(k) ==
                         function_body(p.out, k.out, postpad(char(")", k.rest)))
                 IN  after_keywords(keyword_parameters(p, postpad(char(";", p.rest))))
    IN  after_positional(list_binding_body(postpad(char("(", s))))

keyword_function(s) ==
    LET after_keywords(k) ==
            IF k.ok THEN function_body(<<>>, Some(k.out), k) ELSE IErr
    IN  after_keywords(postpad(terminated_char(map_binding_body(postpad(char("{", s))),
                                               "}")))

\* one `let binding = expression` of a let block
let_binding(s) ==
    LET after_binding(b) ==
            IF ~b.ok THEN IErr
            ELSE LET after_value(x) ==
                         IF x.ok THEN IOk(x.rest, <<b.out, x.out>>) ELSE IErr
                 IN  after_value(preceded(postpad(tag(<<"=">>, b.rest)), "expression"))
    IN  after_binding(preceded(postpad(keyword(<<"l", "e", "t">>, s)), "binding"))

RECURSIVE let_many0(_, _)
\* many0 of the let bindings
let_many0(s, acc) ==
    LET more(r) ==
            IF ~r.ok THEN IOk(s, acc)
            ELSE IF Len(r.rest) = Len(s) THEN IErr
            ELSE let_many0(r.rest, Append(acc, r.out))
    IN  more(let_binding(s))

\* many1 of the let bindings, after the first
let_many1(f) == IF f.ok THEN let_many0(f.rest, <<f.out>>) ELSE IErr

let_block(s) ==
    LET after_bindings(bs) ==
            IF ~bs.ok THEN IErr
            ELSE LET after_body(x) ==
                         IF x.ok THEN IOk(x.rest, Let(bs.out, x.out)) ELSE IErr
                 IN  after_body(preceded(postpad(tag(<<"i", "n">>, bs.rest)),
                                         "expression"))
    IN  after_bindings(let_many1(let_binding(s)))

branch(s) ==
    LET after_condition(c) ==
            IF ~c.ok THEN IErr
            ELSE LET after_then(t) ==
                         IF ~t.ok THEN IErr
                         ELSE LET after_else(f) ==
                                      IF f.ok
                                      THEN IOk(f.rest, Branch(c.out, t.out, f.out))
                                      ELSE IErr
                              IN  after_else(preceded(
                                      postpad(keyword(<<"e", "l", "s", "e">>, t.rest)),
                                      "expression"))
                 IN  after_then(preceded(
                         postpad(keyword(<<"t", "h", "e", "n">>, c.rest)), "expression"))
    IN  after_condition(preceded(postpad(keyword(<<"i", "f">>, s)), "expression"))

composite(s) == alt4(let_block(s), branch(s), function(s), keyword_function(s))

expression(s) == alt(composite(s), disjunction(s))

\* the path of an import and its closing quote, after the opening one
import_path(q) ==
    IF q.ok THEN postpad(terminated_char(raw_string(q.rest), "\"")) ELSE IErr

\* the keyword of an import and the opening quote of its path
import_keyword(k) == IF k.ok THEN char("\"", k.rest) ELSE IErr

import(s) ==
    LET after_path(p) ==
            IF ~p.ok THEN IErr
            ELSE LET after_binding(b) ==
                         IF b.ok THEN IOk(b.rest, [path |-> p.out, binding |-> b.out])
                         ELSE IErr
                 IN  after_binding(postpad(preceded(
                         postpad(keyword(<<"a", "s">>, p.rest)), "binding")))
    IN  after_path(import_path(import_keyword(
            postpad(keyword(<<"i", "m", "p", "o", "r", "t">>, s)))))

RECURSIVE import_many0(_, _)
\* many0(postpad(import))
import_many0(s, acc) ==
    LET more(r) ==
            IF ~r.ok THEN IOk(s, acc)
            ELSE IF Len(r.rest) = Len(s) THEN IErr
            ELSE import_many0(r.rest, Append(acc, r.out))
    IN  more(postpad(import(s)))

file(s) ==
    LET after_statements(st) ==
            IF ~st.ok THEN IErr
            ELSE LET after_expression(x) ==
                         IF x.ok
                         THEN IOk(x.rest, [statements |-> st.out, expression |-> x.out])
                         ELSE IErr
                 IN  after_expression(apply("expression", multispace0(st.rest)))
    IN  after_statements(import_many0(s, <<>>))

\* the parser called `parser`, applied to s
apply(parser, s) ==
    CASE parser = "expression" -> expression(s)
      [] parser = "binding" -> binding(s)
      [] parser = "list_element" -> list_element(s)
      [] parser = "map_element" -> map_element(s)
      [] parser = "function_arg" -> function_arg(s)
      [] parser = "list_binding_element" -> list_binding_element(s)
      [] parser = "map_binding_element" -> map_binding_element(s)
      [] parser = "prefixed" -> prefixed(s)
      [] parser = "product" -> product(s)
      [] parser = "sum" -> sum(s)
      [] parser = "inequality" -> inequality(s)
      [] parser = "equality" -> equality(s)
      [] parser = "conjunction" -> conjunction(s)
      [] parser = "file" -> file(s)

(***************************************************************************)
(* Validation of a parsed file: at most one slurp in a list or map         *)
(* binding, and no name bound twice by one pattern.                        *)
(***************************************************************************)
RECURSIVE Names(_)

RECURSIVE NamesOf(_)
\* the names the elements of a list or map binding bind
NamesOf(els) ==
    IF els = <<>> THEN <<>>
    ELSE (CASE Head(els).s = "SlurpTo" -> <<Head(els).key>>
            [] Head(els).s = "Binding" -> Names(Head(els).binding)
            [] OTHER -> <<>>) \o NamesOf(Tail(els))

\* the names a binding binds
Names(b) == IF b.b = "Identifier" THEN <<b.key>> ELSE NamesOf(b.elements)

Slurps(els) == Cardinality({k \in 1..Len(els) : els[k].s \in {"Slurp", "SlurpTo"}})

NoDuplicates(ns) == \A i, j \in 1..Len(ns) : ns[i] = ns[j] => i = j

RECURSIVE validate_expr(_)

RECURSIVE validate_binding(_)
validate_binding(b) ==
    \/ b.b = "Identifier"
    \/ /\ b.b # "Identifier"
       /\ Slurps(b.elements) <= 1
       /\ NoDuplicates(Names(b))
       /\ \A k \in 1..Len(b.elements) :
             b.elements[k].s = "Binding" =>
                /\ validate_binding(b.elements[k].binding)
                /\ b.elements[k].default.some => validate_expr(b.elements[k].default.x)

RECURSIVE validate_element(_)
\* an element of a list, of a map or of an argument list
validate_element(el) ==
    CASE el.l \in {"Singleton", "Splat", "Keyword"} -> validate_expr(el.expr)
      [] el.l = "MapSingleton" -> validate_expr(el.key) /\ validate_expr(el.value)
      [] el.l = "Loop" ->
            /\ validate_binding(el.binding)
            /\ validate_expr(el.iterable)
            /\ validate_element(el.element)
      [] el.l = "Cond" -> validate_expr(el.condition) /\ validate_element(el.element)

validate_expr(x) ==
    CASE x.e \in {"Literal", "Identifier"} -> TRUE
      [] x.e = "String" ->
            \A k \in 1..Len(x.parts) :
                x.parts[k].p = "Interpolate" => validate_expr(x.parts[k].expr)
      [] x.e \in {"List", "Map"} ->
            \A k \in 1..Len(x.elements) : validate_element(x.elements[k])
      [] x.e = "Operator" ->
            /\ validate_expr(x.operand)
            /\ CASE x.operator.o = "BinOp" -> validate_expr(x.operator.rhs)
                 [] x.operator.o = "FunCall" ->
                       \A k \in 1..Len(x.operator.args) : validate_element(x.operator.args[k])
                 [] OTHER -> TRUE
      [] x.e = "Function" ->
            /\ validate_binding(BindList(x.positional))
            /\ x.keywords.some => validate_binding(BindMap(x.keywords.x))
            /\ NoDuplicates(NamesOf(x.positional)
                    \o (IF x.keywords.some THEN NamesOf(x.keywords.x) ELSE <<>>))
            /\ validate_expr(x.expression)
      [] x.e = "Let" ->
            /\ \A k \in 1..Len(x.bindings) :
                  validate_binding(x.bindings[k][1]) /\ validate_expr(x.bindings[k][2])
            /\ validate_expr(x.expression)
      [] x.e = "Branch" ->
            /\ validate_expr(x.condition)
            /\ validate_expr(x.true_branch)
            /\ validate_expr(x.false_branch)

validate(f) ==
    /\ \A k \in 1..Len(f.statements) : validate_binding(f.statements[k].binding)
    /\ validate_expr(f.expression)

\* a parse that returns the file whatever input remains after it
parse_ignoring_remainder(input) ==
    LET validated(r) ==
            IF ~r.ok THEN [status |-> "err", what |-> "syntax"]
            ELSE IF ~validate(r.out) THEN [status |-> "err", what |-> "validation"]
            ELSE [status |-> "ok", file |-> r.out]
    IN  validated(apply("file", input))

\* parse: the whole input must be one file
parse(input) ==
    LET validated(r) ==
            IF ~r.ok THEN [status |-> "err", what |-> "syntax"]
            ELSE IF Len(r.rest) > 0 THEN [status |-> "err", what |-> "unconsumed input"]
            ELSE IF ~validate(r.out) THEN [status |-> "err", what |-> "validation"]
            ELSE [status |-> "ok", file |-> r.out]
    IN  validated(apply("file", input))

(***************************************************************************)
(* Evaluation in the global scope, as far as literals need it: literals,   *)
(* names, lists, maps and strings without comprehension or interpolation,  *)
(* the prefix operators and the conditional.  What an expression outside   *)
(* this fragment gives is left open ("opaque").                            *)
(***************************************************************************)
EOk(v) == [status |-> "ok", val |-> v]

EErr(kind) == [status |-> "err", kind |-> kind]

EOpaque == [status |-> "opaque"]

\* arithmetic negation, the integer result normalized
negate(x) ==
    CASE x.t = "Integer" -> EOk(numeric_normalize(Big(0 - x.n)))
      [] x.t = "Float" /\ x.sp = "finite" -> EOk(Float(0 - x.m, x.e))
      [] x.t = "Float" /\ x.sp = "inf" -> EOk(FloatNegInf)
      [] x.t = "Float" /\ x.sp = "-inf" -> EOk(FloatInf)
      [] x.t = "Float" /\ x.sp = "nan" -> EOk(FloatNaN)
      [] x.t = "Float" /\ x.sp \notin {"finite", "inf", "-inf", "nan"} -> EOpaque
      [] OTHER -> EErr("TypeMismatch")

RECURSIVE eval(_)

RECURSIVE eval_list(_, _)
\* the elements of a list literal, in order
eval_list(els, acc) ==
    IF els = <<>> THEN EOk(List(acc))
    ELSE IF Head(els).l = "Singleton"
    THEN LET v == eval(Head(els).expr)
         IN  IF v.status = "ok" THEN eval_list(Tail(els), Append(acc, v.val)) ELSE v
    ELSE IF Head(els).l = "Splat"
    THEN LET v == eval(Head(els).expr)
         IN  IF v.status # "ok" THEN v
             ELSE IF v.val.t # "List" THEN EErr("TypeMismatch")
             ELSE eval_list(Tail(els), acc \o v.val.items)
    ELSE EOpaque

eval(x) ==
    CASE x.e = "Literal" -> EOk(x.v)
      [] x.e = "Identifier" ->
            IF \E n \in BUILTINS : Chars(n) = x.key
            THEN EOk(BuiltinFunc(CHOOSE n \in BUILTINS : Chars(n) = x.key))
            ELSE EErr("NameError")
      [] x.e = "List" -> eval_list(x.elements, <<>>)
      [] x.e = "Operator" /\ x.operator.o = "UnOp" ->
            LET v == eval(x.operand)
            IN  IF v.status # "ok" THEN v
                ELSE CASE x.operator.op = "ArithmeticalNegate" -> negate(v.val)
                       [] x.operator.op = "LogicalNegate" -> EOk(Boolean(~truthy(v.val)))
                       [] OTHER ->
                            IF v.val.t \in {"Integer", "Float"} THEN v
                            ELSE EErr("TypeMismatch")
      [] x.e = "Operator" /\ x.operator.o # "UnOp" ->
            LET v == eval(x.operand)
            IN  IF v.status = "err" THEN v ELSE EOpaque
      [] x.e = "Branch" ->
            LET c == eval(x.condition)
            IN  IF c.status # "ok" THEN c
                ELSE IF truthy(c.val) THEN eval(x.true_branch) ELSE eval(x.false_branch)
      [] OTHER -> EOpaque

(***************************************************************************)
(* Texts through the pipeline: a value is displayed, the text is parsed,   *)
(* and the parsed file is evaluated.                                       *)
(***************************************************************************)
\* longest string value displayed
MaxStrLen == 2
\* most elements of a list value displayed
MaxListLen == 2
\* most operands of an operator expression
MaxOperands == 3
\* most characters of a short integer literal
MaxDigits == 3

\* the longest chain of prefix, and of postfix, operators on one operand
MaxChain == 2

\* most elements of a list or map literal parsed
MaxElements == 3

\* most pieces (characters, escapes, interpolations) of a string literal parsed
MaxPieces == 3

\* the characters of string values: plain, quote, backslash
AlphaValue == {"a", "\"", "\\"}

Integers == {Small(0), Small(7), Small(-1), Small(I64_MAX), Small(I64_MIN),
             Big(I64_MAX + 1), Big(I64_MIN - 1)}

Floats == {Float(15, -1), Float(-25, -2), Float(1, 0), Float(-2, 0), Float(0, 0),
           FloatInf, FloatNegInf, FloatNaN}

Strings == {Str(s) : s \in BSeq(AlphaValue, MaxStrLen)}

\* the elements of the lists displayed
Items == {Small(7), Small(-1), Big(I64_MAX + 1), Float(15, -1), Float(1, 0),
          Str(<<"\"">>), Str(<<"a", "\\">>)}

Lists == {List(xs) : xs \in BSeq(Items, MaxListLen)}

Nested ==
    {List(xs) : xs \in BSeq({Small(-1), List(<<>>), List(<<Float(-25, -2), Str(<<"\\", "\"">>)>>),
                             List(<<Float(-2, 0)>>)}, MaxListLen)}

Values == Integers \cup Floats \cup Strings \cup Lists \cup Nested

RECURSIVE OperandTexts(_)
\* an operand with or without a prefix operator, then an operator and the
\* rest, tokens one space apart; the k-th operand from the end is named by
\* the k-th letter
OperandTexts(k) ==
    LET name     == <<<<"a">>, <<"b">>, <<"c">>, <<"d">>, <<"e">>>>[k]
        prefixes == {<<>>, <<"-", " ">>, <<"n", "o", "t", " ">>}
        binaries == {<<"o", "r">>, <<"a", "n", "d">>, <<"=", "=">>, <<"!", "=">>,
                     <<"<">>, <<"<", "=">>, <<">">>, <<">", "=">>, <<"+">>, <<"-">>,
                     <<"*">>, <<"/">>, <<"/", "/">>, <<"^">>}
        heads    == {p \o name : p \in prefixes}
    IN  IF k = 1 THEN heads
        ELSE {h \o <<" ">> \o b \o <<" ">> \o r :
                h \in heads, b \in binaries, r \in OperandTexts(k - 1)}

\* the five expressions `a + b * c`, `-a ^ b`, `-a * b`, `a - b - c`, `a ^ b ^ c`
Examples ==
    {<<"a", " ", "+", " ", "b", " ", "*", " ", "c">>,
     <<"-", "a", " ", "^", " ", "b">>,
     <<"-", "a", " ", "*", " ", "b">>,
     <<"a", " ", "-", " ", "b", " ", "-", " ", "c">>,
     <<"a", " ", "^", " ", "b", " ", "^", " ", "c">>}

OperatorTexts == Examples \cup UNION {OperandTexts(k) : k \in 1..MaxOperands}

\* a digit run, `_` allowed after the first digit
ShortIntegerTexts ==
    {s \in BSeq({"0", "7", "_"}, MaxDigits) : s # <<>> /\ s[1] # "_"}

\* the literals around i64::MAX, plain, with separators, and with a leading zero
LongIntegerTexts ==
    UNION {LET d == NatDigits(n)
           IN  {d, <<Head(d), "_">> \o Tail(d), d \o <<"_">>, <<"0">> \o d} :
           n \in (I64_MAX - 1)..(I64_MAX + 2)}

IntegerTexts == ShortIntegerTexts \cup LongIntegerTexts

\* the arguments `int` is called with
IntArguments ==
    Integers
        \cup Floats
        \cup {F64(I64_MAX, 0), F64(I64_MAX + 1, 0), F64(I64_MIN - 1, 0), Float(-25, -1)}
        \cup {Boolean(TRUE), Boolean(FALSE)}
        \cup {Str(s) : s \in IntegerTexts}
        \cup {Str(<<"-">> \o NatDigits(n)) : n \in {1, I64_MAX + 1, I64_MAX + 2}}
        \cup {Str(<<"a">>), Str(<<>>), Str(<<"+", "7">>)}

NoObject == [t |-> "none"]

\* a value about to be displayed
ValueInit(V) ==
    /\ pc = "value"
    /\ obj \in V
    /\ text = <<>>
    /\ tree = [status |-> "idle"]
    /\ out = [status |-> "idle"]
    /\ LexIdle
    /\ BuiltinIdle

\* a text about to be parsed
TextInit(T) ==
    /\ pc = "text"
    /\ obj = NoObject
    /\ text \in T
    /\ tree = [status |-> "idle"]
    /\ out = [status |-> "idle"]
    /\ LexIdle
    /\ BuiltinIdle

Display ==
    /\ pc = "value"
    /\ text' = to_string(obj)
    /\ pc' = "text"
    /\ UNCHANGED <<obj, tree, out, lexvars, bvars>>

Parse ==
    /\ pc = "text"
    /\ tree' = parse(text)
    /\ pc' = "parsed"
    /\ UNCHANGED <<obj, text, out, lexvars, bvars>>

Eval ==
    /\ pc = "parsed"
    /\ tree.status = "ok"
    /\ out' = eval(tree.file.expression)
    /\ pc' = "evaluated"
    /\ UNCHANGED <<obj, text, tree, lexvars, bvars>>

ParseNext == Display \/ Parse \/ Eval

\* values displayed, parsed back and evaluated
SpecParse == ValueInit(Values) /\ [][ParseNext]_vars

OperatorNext == Parse

\* operator expressions parsed
SpecOperators == TextInit(OperatorTexts) /\ [][OperatorNext]_vars

IntegerInit ==
    \/ TextInit(IntegerTexts)
    \/ /\ bcall \in [name : {"int"}, args : {<<v>> : v \in IntArguments}]
       /\ bret = [status |-> "idle"]
       /\ LexIdle
       /\ ParseIdle

IntegerNext == Parse \/ CallBuiltin

\* integer literals parsed, and `int` called
SpecInteger == IntegerInit /\ [][IntegerNext]_vars

\* a name of seven letters
Dingbob == <<"d", "i", "n", "g", "b", "o", "b">>

\* the keywords, the keywords with one more character, and short words over a
\* letter, a digit and `_`
NameTexts ==
    KEYWORDS
        \cup {k \o <<c>> : k \in KEYWORDS, c \in {"s", "1", "_"}}
        \cup (BSeq({"a", "1", "_"}, MaxStrLen) \ {<<>>})
        \cup {Dingbob}

\* the prefix operators
PrefixOps == {"Passthrough", "ArithmeticalNegate", "LogicalNegate"}

\* the postfix operators written: `.b`, `[c]`, `(d)` and `()`
PostfixOps == {"access", "index", "call", "call0"}

\* an operand `a` under at most MaxChain prefix and MaxChain postfix
\* operators, and a literal `1` under prefix operators
Chains ==
    [pre : BSeq(PrefixOps, MaxChain), operand : {"a"}, post : BSeq(PostfixOps, MaxChain)]
        \cup [pre : BSeq(PrefixOps, MaxChain), operand : {"1"}, post : {<<>>}]

PrefixText(op) ==
    CASE op = "Passthrough" -> <<"+">>
      [] op = "ArithmeticalNegate" -> <<"-", " ">>
      [] op = "LogicalNegate" -> <<"n", "o", "t", " ">>

PostfixText(op) ==
    CASE op = "access" -> <<".", "b">>
      [] op = "index" -> <<"[", "c", "]">>
      [] op = "call" -> <<"(", "d", ")">>
      [] op = "call0" -> <<"(", ")">>

RECURSIVE Concat(_)
\* the concatenation of a sequence of texts
Concat(ts) == IF ts = <<>> THEN <<>> ELSE Head(ts) \o Concat(Tail(ts))

\* the prefix operators, the operand, the postfix operators
ChainText(ch) ==
    Concat([k \in 1..Len(ch.pre) |-> PrefixText(ch.pre[k])])
        \o <<ch.operand>>
        \o Concat([k \in 1..Len(ch.post) |-> PostfixText(ch.post[k])])

UnaryTexts == {ChainText(ch) : ch \in Chains}

\* the whitespace written around the elements of a list or a map
Pads == {<<>>, <<" ">>, <<"\n", " ">>}

\* a list or a map of n elements: whitespace after the opening bracket and
\* the commas, whitespace after the elements, a trailing comma or none; the
\* k-th element of a list is the integer k, that of a map has the k-th letter
\* as its key and the integer k as its value
LiteralForms ==
    [kind : {"list", "map"}, n : 1..MaxElements, before : Pads, after : Pads,
     trailing : BOOLEAN]
        \cup [kind : {"list", "map"}, n : {0}, before : Pads, after : {<<>>},
              trailing : {FALSE}]

ElementText(f, k) ==
    LET digit == <<"1", "2", "3", "4", "5">>[k]
        key   == <<"a", "b", "c", "d", "e">>[k]
    IN  IF f.kind = "list" THEN <<digit>> \o f.after
        ELSE <<key>> \o f.after \o <<":">> \o f.before \o <<digit>> \o f.after

RECURSIVE ElementsText(_, _)
\* the first k elements, separated by commas
ElementsText(f, k) ==
    IF k = 0 THEN <<>>
    ELSE IF k = 1 THEN ElementText(f, 1)
    ELSE ElementsText(f, k - 1) \o <<",">> \o f.before \o ElementText(f, k)

\* the literal with `commas` commas after its last element
FormTextWith(f, commas) ==
    (IF f.kind = "list" THEN <<"[">> ELSE <<"{">>)
        \o f.before
        \o ElementsText(f, f.n)
        \o Concat([k \in 1..commas |-> <<",">> \o f.before])
        \o (IF f.kind = "list" THEN <<"]">> ELSE <<"}">>)

FormText(f) == FormTextWith(f, IF f.trailing THEN 1 ELSE 0)

LiteralTexts == {FormText(f) : f \in LiteralForms}

\* the literals with two commas after the last element
TwoCommaTexts == {FormTextWith(f, 2) : f \in {g \in LiteralForms : g.trailing}}

\* the pieces a string literal is written with: a letter, an escaped quote,
\* an escaped backslash, `${a}` and `${ a}`
PieceKinds == {"letter", "quote", "backslash", "interp", "spaced_interp"}

RawKinds == {"letter", "quote", "backslash"}

PieceText(p) ==
    CASE p = "letter" -> <<"x">>
      [] p = "quote" -> <<"\\", "\"">>
      [] p = "backslash" -> <<"\\", "\\">>
      [] p = "interp" -> <<"$", "{", "a", "}">>
      [] p = "spaced_interp" -> <<"$", "{", " ", "a", "}">>

\* the string literals of at most MaxPieces pieces
StringForms == BSeq(PieceKinds, MaxPieces)

StringText(f) == <<"\"">> \o Concat([k \in 1..Len(f) |-> PieceText(f[k])]) \o <<"\"">>

StringTexts == {StringText(f) : f \in StringForms}

\* names that begin with the letters of no word operator but follow them
Suffixes == {<<"b">>, <<"r", "o", "i", "d">>, <<"x", "1">>, <<"_">>}

\* `a and` and `a or` run into a name: `a orb`, `a android`
WordOperatorTexts ==
    {<<"a", " ">> \o w \o n : w \in {<<"a", "n", "d">>, <<"o", "r">>}, n \in Suffixes}

\* `let x = 1 in` run into a name: `let x = 1 inx1`
LetInTexts ==
    {<<"l", "e", "t", " ", "x", " ", "=", " ", "1", " ", "i", "n">> \o n : n \in Suffixes}

\* `[for x in` run into a name: `[for x inb: x]`
ForInTexts ==
    {<<"[", "f", "o", "r", " ", "x", " ", "i", "n">> \o n \o <<":", " ", "x", "]">> :
        n \in Suffixes}

WordTexts == WordOperatorTexts \cup LetInTexts \cup ForInTexts

\* an expression followed by something that continues no expression
TrailingTexts ==
    {<<"a", " ", "b">>, <<"1", " ", "2">>, <<"a", ")">>, <<"[", "]", "]">>,
     <<"\"", "x", "\"", "\"">>, <<"a", " ", "+">>}

SyntaxTexts ==
    NameTexts \cup UnaryTexts \cup LiteralTexts \cup TwoCommaTexts \cup StringTexts
        \cup WordTexts \cup TrailingTexts

SyntaxNext == Parse

\* names, unary operators, literals and word operators parsed
SpecSyntax == TextInit(SyntaxTexts) /\ [][SyntaxNext]_vars

(***************************************************************************)
(* Properties of the parser and of the round trip.                         *)
(***************************************************************************)
RECURSIVE IsPureData(_)
\* Integers, Floats other than NaN, strings, and lists of these
IsPureData(v) ==
    CASE v.t = "Integer" -> TRUE
      [] v.t = "Float" -> v.sp # "nan"
      [] v.t = "String" -> TRUE
      [] v.t = "List" -> \A k \in 1..Len(v.items) : IsPureData(v.items[k])
      [] OTHER -> FALSE

\* a Float with no fractional part, or an infinity
IsWholeOrInfinite(v) == v.t = "Float" /\ (v.sp \in {"inf", "-inf"} \/ (v.sp = "finite" /\ v.e = 0))

RECURSIVE HasWholeOrInfinite(_)
HasWholeOrInfinite(v) ==
    \/ IsWholeOrInfinite(v)
    \/ v.t = "List" /\ \E k \in 1..Len(v.items) : HasWholeOrInfinite(v.items[k])

\* the display of obj has been parsed, or parsed and evaluated
Displayed == pc \in {"parsed", "evaluated"} /\ obj # NoObject

C2_IntegersAreNormalized ==
    /\ (pc = "parsed" /\ text \in IntegerTexts) =>
          /\ tree.status = "ok"
          /\ tree.file.expression.e = "Literal"
          /\ tree.file.expression.v.t = "Integer"
          /\ tree.file.expression.v.n = DigitsValue(text, 0)
          /\ tree.file.expression.v.big <=> DigitsValue(text, 0) > I64_MAX
    /\ (bcall.name = "int" /\ bret.status = "ok") =>
          /\ bret.val.t = "Integer"
          /\ bret.val.big <=> ~FitsI64(bret.val.n)
    /\ (bcall.name = "int" /\ bret.status # "idle"
            /\ bcall.args[1].t \in {"Integer", "Float", "Boolean"}) => bret.status = "ok"

C2_Witness ==
    /\ pc = "parsed"
    /\ text = <<"0">> \o NatDigits(I64_MAX + 1)
    /\ tree.status = "ok"
    /\ tree.file.expression.v = Big(I64_MAX + 1)

\* the level of the ladder an expression stands on: its outermost operator
Level(x) ==
    IF x.e # "Operator" THEN 9
    ELSE CASE x.operator.o = "UnOp" -> 7
           [] x.operator.o = "FunCall" -> 9
           [] x.operator.o = "BinOp" ->
                (CASE x.operator.op = "or" -> 1
                   [] x.operator.op = "and" -> 2
                   [] x.operator.op \in {"equal", "not_equal"} -> 3
                   [] x.operator.op \in {"less", "less_equal", "greater", "greater_equal"} -> 4
                   [] x.operator.op \in {"add", "subtract"} -> 5
                   [] x.operator.op \in {"multiply", "divide", "integer_divide"} -> 6
                   [] x.operator.op = "power" -> 8
                   [] OTHER -> 9)

RECURSIVE WellGrouped(_)
\* every operator has operands of its level or above: a binary operator
\* other than ^ takes its own level on the left only, ^ on the right only
\* (where a prefix operator may also stand), a prefix operator takes prefix
\* operators, ^ and postfix expressions
WellGrouped(x) ==
    IF x.e # "Operator" \/ x.operator.o = "FunCall" THEN TRUE
    ELSE IF x.operator.o = "UnOp" THEN Level(x.operand) >= 7 /\ WellGrouped(x.operand)
    ELSE /\ WellGrouped(x.operand)
         /\ WellGrouped(x.operator.rhs)
         /\ IF x.operator.op = "power"
            THEN Level(x.operand) > 8 /\ Level(x.operator.rhs) >= 7
            ELSE Level(x.operand) >= Level(x) /\ Level(x.operator.rhs) > Level(x)

\* the spelling of an operator
Symbol(op) ==
    CASE op = "or" -> <<"o", "r">>
      [] op = "and" -> <<"a", "n", "d">>
      [] op = "equal" -> <<"=", "=">>
      [] op = "not_equal" -> <<"!", "=">>
      [] op = "less" -> <<"<">>
      [] op = "less_equal" -> <<"<", "=">>
      [] op = "greater" -> <<">">>
      [] op = "greater_equal" -> <<">", "=">>
      [] op = "add" -> <<"+">>
      [] op = "subtract" -> <<"-">>
      [] op = "multiply" -> <<"*">>
      [] op = "divide" -> <<"/">>
      [] op = "integer_divide" -> <<"/", "/">>
      [] op = "power" -> <<"^">>
      [] op = "Passthrough" -> <<"+">>
      [] op = "ArithmeticalNegate" -> <<"-">>
      [] op = "LogicalNegate" -> <<"n", "o", "t">>

RECURSIVE Spell(_)
\* the names and operators of an expression from left to right
Spell(x) ==
    CASE x.e = "Identifier" -> x.key
      [] x.e = "Operator" /\ x.operator.o = "UnOp" -> Symbol(x.operator.op) \o Spell(x.operand)
      [] x.e = "Operator" /\ x.operator.o = "BinOp" ->
            Spell(x.operand) \o Symbol(x.operator.op) \o Spell(x.operator.rhs)
      [] OTHER -> <<"?">>

Unspaced(s) == SelectSeq(s, LAMBDA c : c # " ")

Id(c) == Identifier(<<c>>)

Bin(l, op, r) == Operator(l, BinOp(op, r))

Neg(x) == Operator(x, UnOp("ArithmeticalNegate"))

\* what the five expressions group as
Grouping(t) ==
    CASE t = <<"a", " ", "+", " ", "b", " ", "*", " ", "c">> ->
            Bin(Id("a"), "add", Bin(Id("b"), "multiply", Id("c")))
      [] t = <<"-", "a", " ", "^", " ", "b">> -> Neg(Bin(Id("a"), "power", Id("b")))
      [] t = <<"-", "a", " ", "*", " ", "b">> -> Bin(Neg(Id("a")), "multiply", Id("b"))
      [] t = <<"a", " ", "-", " ", "b", " ", "-", " ", "c">> ->
            Bin(Bin(Id("a"), "subtract", Id("b")), "subtract", Id("c"))
      [] t = <<"a", " ", "^", " ", "b", " ", "^", " ", "c">> ->
            Bin(Id("a"), "power", Bin(Id("b"), "power", Id("c")))

\* C3: in an expression without parentheses an operator of a higher level of
\* the ladder or < and < (== !=) < (< <= > >=) < (+ -) < (* / //) < prefix
\* (+ - not) < ^ < postfix groups tighter than one of a lower level, binary
\* operators of one level other than ^ group to the left, and ^ groups to
\* the right.
C3_OperatorLadder ==
    (pc = "parsed" /\ text \in OperatorTexts) =>
        /\ tree.status = "ok"
        /\ Spell(tree.file.expression) = Unspaced(text)
        /\ WellGrouped(tree.file.expression)
        /\ text \in Examples => tree.file.expression = Grouping(text)

C3_Witness ==
    /\ pc = "parsed"
    /\ text = <<"-", " ", "c", " ", "*", " ", "b", " ", "^", " ", "n", "o", "t", " ", "a">>
    /\ tree.status = "ok"
    /\ tree.file.expression =
          Bin(Neg(Id("c")), "multiply",
              Bin(Id("b"), "power", Operator(Id("a"), UnOp("LogicalNegate"))))

\* the texts that have the form of a name: a letter or `_`, then characters
\* other than operators, punctuation, quotes and whitespace
IsName(t) ==
    /\ t # <<>>
    /\ t[1] \in Lower \cup Upper \cup {"_"}
    /\ \A k \in 1..Len(t) : t[k] \notin WordStop

\* the text parsed to one identifier
ParsedIdentifier == tree.status = "ok" /\ tree.file.expression.e = "Identifier"

\* C22: the parser accepts a name as an identifier exactly when its full text
\* is not a keyword: a name that only begins with a keyword, such as `lets`
\* and `not1`, parses as an identifier, and a keyword is never returned as an
\* identifier.
C22_IdentifiersAreNotKeywords ==
    (pc = "parsed" /\ text \in NameTexts) =>
        /\ (IsName(text) /\ text \notin KEYWORDS) =>
              /\ tree.status = "ok"
              /\ tree.file.expression = Identifier(text)
        /\ ParsedIdentifier =>
              /\ tree.file.expression.key = text
              /\ text \notin KEYWORDS
              /\ IsName(text)

\* `not1` parsed as an identifier
C22_Witness ==
    /\ pc = "parsed"
    /\ text = <<"n", "o", "t", "1">>
    /\ tree.status = "ok"
    /\ tree.file.expression = Identifier(<<"n", "o", "t", "1">>)

\* what a postfix operator written as PostfixText parses to
PostfixOperator(op) ==
    CASE op = "access" -> BinOp("index", Literal(Str(<<"b">>)))
      [] op = "index" -> BinOp("index", Id("c"))
      [] op = "call" -> FunCall(<<Singleton(Id("d"))>>)
      [] op = "call0" -> FunCall(<<>>)

RECURSIVE Postfixed(_, _)
\* x under the postfix operators ops, the leftmost innermost
Postfixed(x, ops) ==
    IF ops = <<>> THEN x
    ELSE Operator(Postfixed(x, SubSeq(ops, 1, Len(ops) - 1)),
                  PostfixOperator(ops[Len(ops)]))

RECURSIVE Prefixed(_, _)
\* x under the prefix operators ops, the rightmost innermost
Prefixed(ops, x) ==
    IF ops = <<>> THEN x ELSE Operator(Prefixed(Tail(ops), x), UnOp(Head(ops)))

\* what a chain of unary operators nests as
ChainTree(ch) ==
    Prefixed(ch.pre,
             Postfixed(IF ch.operand = "a" THEN Id("a") ELSE Literal(Small(1)), ch.post))

\* C23: chains of unary operators nest by proximity to the operand: postfix
\* operators apply from left to right, the leftmost innermost (`a.b[c]` is
\* Index(Index(a, "b"), c)), `.name` is indexing with the string "name", and
\* of the prefix operators the one nearest the operand is innermost (`- not 1`
\* is Negate(Not(1)), `not -1` is Not(Negate(1))).
C23_UnaryOperatorsNestByProximity ==
    (pc = "parsed" /\ text \in UnaryTexts) =>
        /\ tree.status = "ok"
        /\ \A ch \in Chains : text = ChainText(ch) => tree.file.expression = ChainTree(ch)

\* `- not a.b[c]` parsed
C23_Witness ==
    /\ pc = "parsed"
    /\ text = <<"-", " ", "n", "o", "t", " ", "a", ".", "b", "[", "c", "]">>
    /\ tree.status = "ok"
    /\ tree.file.expression =
          Neg(Operator(Operator(Operator(Id("a"), BinOp("index", Literal(Str(<<"b">>)))),
                                BinOp("index", Id("c"))),
                       UnOp("LogicalNegate")))

\* what a list or map literal of n elements parses to
FormTree(f) ==
    IF f.kind = "list"
    THEN ExprList([k \in 1..f.n |-> Singleton(Literal(Small(k)))])
    ELSE ExprMap([k \in 1..f.n |->
                     MapSingleton(Literal(Str(<<<<"a", "b", "c", "d", "e">>[k]>>)),
                                  Literal(Small(k)))])

\* C24: list and map literals accept optional whitespace around the elements
\* and one optional trailing comma after the last element, and neither changes
\* the result: `[1,]`, `[  1   ,  ]` and `[1]` parse to the same list, a map
\* with a trailing comma to the same map as without it; the elements are in
\* source order and as many as were written.
C24_WhitespaceAndTrailingComma ==
    /\ (pc = "parsed" /\ text \in LiteralTexts) =>
          /\ tree.status = "ok"
          /\ \A f \in LiteralForms : text = FormText(f) =>
                /\ tree.file.expression = FormTree(f)
                /\ Len(tree.file.expression.elements) = f.n
    /\ (pc = "parsed" /\ text \in TwoCommaTexts) => tree.status = "err"

\* a list and a map of two elements with whitespace and a trailing comma
C24_Witness ==
    /\ pc = "parsed"
    /\ tree.status = "ok"
    /\ \/ /\ text = <<"[", " ", "1", ",", " ", "2", ",", " ", "]">>
          /\ tree.file.expression =
                ExprList(<<Singleton(Literal(Small(1))), Singleton(Literal(Small(2)))>>)
       \/ /\ text = <<"{", "a", ":", "1", ",", "b", ":", "2", ",", "}">>
          /\ tree.file.expression =
                ExprMap(<<MapSingleton(Literal(Str(<<"a">>)), Literal(Small(1))),
                          MapSingleton(Literal(Str(<<"b">>)), Literal(Small(2)))>>)

\* the character a raw piece stands for
Unescaped(p) ==
    CASE p = "letter" -> "x"
      [] p = "quote" -> "\""
      [] p = "backslash" -> "\\"

RECURSIVE Parts(_, _)
\* the parts of the pieces f after the parts acc: adjacent raw pieces are one
\* Raw part, every interpolation is one Interpolate part
Parts(f, acc) ==
    IF f = <<>> THEN acc
    ELSE IF Head(f) \notin RawKinds THEN Parts(Tail(f), Append(acc, Interpolate(Id("a"))))
    ELSE IF acc # <<>> /\ acc[Len(acc)].p = "Raw"
    THEN Parts(Tail(f),
               [acc EXCEPT ![Len(acc)] = Raw(acc[Len(acc)].s \o <<Unescaped(Head(f))>>)])
    ELSE Parts(Tail(f), Append(acc, Raw(<<Unescaped(Head(f))>>)))

\* the pieces hold no interpolation
IsPlain(f) == \A k \in 1..Len(f) : f[k] \in RawKinds

\* C25: a double-quoted string literal parses to its parts in source order:
\* raw pieces, in which `\"` stands for `"` and `\\` for `\`, alternating with
\* one Interpolate part for each `${expr}`, whitespace directly after `${`
\* ignored; a literal without interpolation parses to a plain string Literal,
\* the empty string for `""`, and never to a String node.
C25_StringParts ==
    (pc = "parsed" /\ text \in StringTexts) =>
        /\ tree.status = "ok"
        /\ \A f \in StringForms : text = StringText(f) =>
              IF IsPlain(f)
              THEN tree.file.expression =
                      Literal(Str([k \in 1..Len(f) |-> Unescaped(f[k])]))
              ELSE tree.file.expression = ExprString(Parts(f, <<>>))

\* `"x\"${ a}"` parsed to a raw part and an interpolation
C25_Witness ==
    /\ pc = "parsed"
    /\ text = <<"\"", "x", "\\", "\"", "$", "{", " ", "a", "}", "\"">>
    /\ tree.status = "ok"
    /\ tree.file.expression = ExprString(<<Raw(<<"x", "\"">>), Interpolate(Id("a"))>>)

\* the expression is `and` or `or` applied, a let block, or a list whose only
\* element is a comprehension
UsesWordOperator(x) ==
    \/ x.e = "Operator" /\ x.operator.o = "BinOp" /\ x.operator.op \in {"and", "or"}
    \/ x.e = "Let"
    \/ x.e = "List" /\ Len(x.elements) = 1 /\ x.elements[1].l = "Loop"

\* C29: the word operators `and` and `or` and the `in` of let blocks and
\* comprehensions are recognized as whole words only: where their letters are
\* the beginning of a longer name (`a orb`, `a android`, `let x = 1 inx`), the
\* text is not parsed as the operator applied to the rest of the name.
C29_WordOperatorsAreWholeWords ==
    (pc = "parsed" /\ text \in WordTexts /\ tree.status = "ok") =>
        ~UsesWordOperator(tree.file.expression)

\* `a orb` parsed as `a or b`
C29_OrbIsOrB ==
    (pc = "parsed" /\ text = <<"a", " ", "o", "r", "b">>) =>
        /\ tree.status = "ok"
        /\ tree.file.expression = Bin(Id("a"), "or", Id("b"))

\* what is left of the text after the longest file at its start
Remaining(r) == IF r.ok THEN r.rest ELSE <<>>

\* the outcome of parse, given the outcome r of the file parser
WholeInput(r) ==
    /\ ~r.ok => tree.status = "err"
    /\ (r.ok /\ r.rest # <<>>) =>
          /\ tree.status = "err"
          /\ tree.what = "unconsumed input"
    /\ tree.status = "err" => DOMAIN tree = {"status", "what"}
    /\ tree.status = "ok" =>
          /\ r.ok
          /\ r.rest = <<>>
          /\ tree.file = r.out

\* C30: parse succeeds only if the whole input is consumed: if input remains
\* after the top-level expression, parse returns the error "unconsumed input"
\* and no tree; if the expression parser fails, parse returns an error; a
\* successful parse accounts for every byte of the input.
C30_ParseConsumesTheWholeInput ==
    pc = "parsed" => WholeInput(apply("file", text))

\* `a b`: the expression `a` parsed, `b` left over
C30_Witness ==
    /\ pc = "parsed"
    /\ text = <<"a", " ", "b">>
    /\ Remaining(apply("file", text)) = <<"b">>
    /\ tree = [status |-> "err", what |-> "unconsumed input"]

====
